---- MODULE Spec2Model ----
(***************************************************************************)
(* Model of the FactGap PR reviewer's RAG core: the indexing paths of      *)
(* apps/api/app/services/indexing.py and factgap/db/supabase_client.py     *)
(* writing to the rag_chunks table, and the query path (intent             *)
(* classification, scoped retrieval, reranking with diversity).            *)
(***************************************************************************)
EXTENDS Integers, Sequences, FiniteSets, TLC

NULL == "null"
\* the NULL of the integer columns start_line and end_line (lines are 1-based)
NOLINE == 0

(***************************************************************************)
(* Bounds of the model.                                                    *)
(***************************************************************************)
\* provider failures (fetch, select, embed, insert) injected in one behaviour
MaxFaults == 1

\* the two invocations the model follows: a first and a second run, which
\* may overlap in time
Runs == {1, 2}
IndexOps == {"index_repository", "index_pr", "index_notion_page"}

(***************************************************************************)
(* The world the indexing runs read: one user, one repository with two     *)
(* files, one pull request, one Notion page.  A file's content is given as *)
(* the sequence of chunks the splitter cuts it into; <<>> is a file whose  *)
(* content the provider does not return (404 / empty).                     *)
(***************************************************************************)
USER == "u1"
REPO == "org/repo"
PAGE == "page1"
PR == "#7"
Paths == <<"a.py", "b.py">>
HeadShas == <<"s1", "s2">>
PrDiff == <<"d1">>
PrFiles == << [filename |-> "a.py", status |-> "modified"],
              [filename |-> "old.py", status |-> "removed"],
              [filename |-> "b.py", status |-> "added"] >>

\* chunk.count("\n") of the chunk texts of the model
ChunkNewlines == [c \in {"c1", "c2", "d1"} |-> IF c = "c2" THEN 1 ELSE 0]

compute_content_hash(content) == <<"sha256", content>>

\* the text that is embedded: the chunk behind its contextual header
enriched_content(chunk) ==
    CASE chunk = "c1" -> "File: ...|c1"
      [] chunk = "c2" -> "File: ...|c2"
      [] OTHER -> "Diff: ...|d1"

VARIABLES
    store,      \* rows of the rag_chunks table, in insertion order
    run,        \* the indexing runs: position, stats and result of each
    files,      \* path -> chunks of the file (default branch and PR head)
    head,       \* index in HeadShas of the PR's current head
    page,       \* chunks of the Notion page
    faults,     \* number of provider failures so far
    hits,       \* row id -> similarity of the stored row to the query
    ret,        \* what ScopedRetriever.retrieve returned
    env,        \* feature flags and provider credentials of the reranker
    rk,         \* one rerank call: arguments, position, provider calls made
    rres,       \* what Reranker.rerank returned (or raised)
    patterns,   \* IntentClassifier._patterns: per intent, its alternation
    cls,        \* one classify call: the query, then the IntentResult
    emb,        \* one BatchEmbedder call: arguments, position, provider calls
    disc,       \* one discover_files call: the walk, the files, the stats
    lm,         \* one line-span mapping: the chunks, the cursor, the spans
    pri,        \* pr_index_build of the MCP server: its chunks and its table
    prb         \* pr_index_build of the MCP server: its loops and its caps

idxVars == <<store, run, files, head, page, faults>>

retVars == <<hits, ret>>

rerVars == <<env, rk, rres>>

intVars == <<patterns, cls>>

libVars == <<emb, disc, lm, pri, prb>>

vars == <<store, run, files, head, page, faults, hits, ret, env, rk, rres,
          patterns, cls, emb, disc, lm, pri, prb>>

(***************************************************************************)
(* Rows and the identity key of the data model.                            *)
(***************************************************************************)
Row(user, repo, st, path, sid, pr, sha, h, sl, el, r) ==
    [user_id |-> user, repo |-> repo, source_type |-> st, path |-> path,
     source_id |-> sid, pr_number |-> pr, head_sha |-> sha,
     content_hash |-> h, start_line |-> sl, end_line |-> el, by |-> r]

IdentityKey(row) ==
    <<row.repo, row.source_type, row.path, row.source_id, row.pr_number,
      row.head_sha, row.content_hash>>

\* ChunkRecord lists handed to SupabaseManager.upsert_chunks
DocRecord(sl) ==
    Row(NULL, REPO, "repo_doc", "README.md", NULL, NULL, NULL,
        compute_content_hash("c1"), sl, sl, 0)
PrCodeRecord(sha) ==
    Row(NULL, REPO, "code", "a.py", NULL, PR, sha,
        compute_content_hash("c1"), 1, 1, 0)
UpsertInputs ==
    { <<DocRecord(1), DocRecord(3)>>, <<PrCodeRecord("s1"), DocRecord(1)>> }

(***************************************************************************)
(* The existence checks, one per call site.                                *)
(***************************************************************************)
RepoExisting(st, user, repo, path, h) ==
    \E i \in DOMAIN st :
        /\ st[i].user_id = user
        /\ st[i].repo = repo
        /\ st[i].path = path
        /\ st[i].content_hash = h

NotionExisting(st, user, sid, h) ==
    \E i \in DOMAIN st :
        /\ st[i].user_id = user
        /\ st[i].source_type = "notion"
        /\ st[i].source_id = sid
        /\ st[i].content_hash = h

PrDiffExisting(st, user, repo, pr, h) ==
    \E i \in DOMAIN st :
        /\ st[i].user_id = user
        /\ st[i].repo = repo
        /\ st[i].pr_number = pr
        /\ st[i].source_type = "diff"
        /\ st[i].content_hash = h

PrFileExisting(st, user, repo, pr, path, h) ==
    \E i \in DOMAIN st :
        /\ st[i].user_id = user
        /\ st[i].repo = repo
        /\ st[i].pr_number = pr
        /\ st[i].path = path
        /\ st[i].content_hash = h

UpsertExisting(st, chunk) ==
    \E i \in DOMAIN st :
        /\ st[i].repo = chunk.repo
        /\ st[i].source_type = chunk.source_type
        /\ st[i].content_hash = chunk.content_hash
        /\ chunk.pr_number # NULL => st[i].pr_number = chunk.pr_number
        /\ chunk.head_sha # NULL => st[i].head_sha = chunk.head_sha
        /\ st[i].path = chunk.path
        /\ st[i].start_line = chunk.start_line
        /\ st[i].end_line = chunk.end_line

(***************************************************************************)
(* A run: the local variables of one invocation.                           *)
(***************************************************************************)
IdleRun ==
    [op |-> "none", pc |-> "idle", result |-> "none", cause |-> "none",
     phase |-> "none", head_sha |-> NULL, input |-> <<>>,
     fi |-> 0, ci |-> 0, current_line |-> 1,
     indexed |-> 0, skipped |-> 0, errors |-> 0,
     embedLog |-> {}, skipPos |-> {}, skips |-> {}, preds |-> {}]

Finished == {q \in Runs : run[q].result = "returned"}

\* the chunks the run is looping over
CurChunks(rec) ==
    CASE rec.op = "index_repository" -> files[rec.input[rec.fi]]
      [] rec.op = "index_pr" /\ rec.phase = "diff" -> PrDiff
      [] rec.op = "index_pr" /\ rec.phase = "files" ->
            files[rec.input[rec.fi].filename]
      [] rec.op = "index_notion_page" -> rec.input
      [] OTHER -> <<>>

CurChunk(rec) == CurChunks(rec)[rec.ci]

CurPos(rec) == <<rec.phase, rec.fi, rec.ci>>

EndLine(rec) == rec.current_line + (ChunkNewlines[CurChunk(rec)] + 1) - 1

\* the row the run inserts for its current chunk
NewRow(rec, r) ==
    CASE rec.op = "index_repository" ->
            Row(USER, REPO, "code", rec.input[rec.fi], NULL, NULL, NULL,
                compute_content_hash(CurChunk(rec)),
                rec.current_line, EndLine(rec), r)
      [] rec.op = "index_pr" /\ rec.phase = "diff" ->
            Row(USER, REPO, "diff", NULL, NULL, PR, rec.head_sha,
                compute_content_hash(CurChunk(rec)), NOLINE, NOLINE, r)
      [] rec.op = "index_pr" /\ rec.phase = "files" ->
            Row(USER, REPO, "code", rec.input[rec.fi].filename, NULL, PR,
                rec.head_sha, compute_content_hash(CurChunk(rec)),
                rec.current_line, EndLine(rec), r)
      [] rec.op = "index_notion_page" ->
            Row(USER, "notion", "notion", NULL, PAGE, NULL, NULL,
                compute_content_hash(CurChunk(rec)), NOLINE, NOLINE, r)
      [] OTHER -> [rec.input[rec.ci] EXCEPT !.by = r]

\* the content hash of the run's current chunk
CurHash(rec) ==
    IF rec.op = "upsert_chunks" THEN rec.input[rec.ci].content_hash
    ELSE compute_content_hash(CurChunk(rec))

\* the select of the run's call site, looking for hash h
ExistingByHash(st, rec, h) ==
    CASE rec.op = "index_repository" ->
            RepoExisting(st, USER, REPO, rec.input[rec.fi], h)
      [] rec.op = "index_pr" /\ rec.phase = "diff" ->
            PrDiffExisting(st, USER, REPO, PR, h)
      [] rec.op = "index_pr" /\ rec.phase = "files" ->
            PrFileExisting(st, USER, REPO, PR, rec.input[rec.fi].filename, h)
      [] rec.op = "index_notion_page" ->
            NotionExisting(st, USER, PAGE, h)
      [] OTHER ->
            UpsertExisting(st, [rec.input[rec.ci] EXCEPT !.content_hash = h])

\* (mutation) the lookup uses the hash of the enriched text
Existing_EnrichedHash(st, rec) ==
    ExistingByHash(st, rec,
        IF rec.op = "upsert_chunks" THEN CurHash(rec)
        ELSE compute_content_hash(enriched_content(CurChunk(rec))))

\* the existence check of the run's call site, for its current chunk
Existing(st, rec) == ExistingByHash(st, rec, CurHash(rec))

Returned(rec) == [rec EXCEPT !.pc = "done", !.result = "returned"]

Raised(rec, why) ==
    [rec EXCEPT !.pc = "done", !.result = "raised", !.cause = why]

\* first changed file at or after position i that is not removed
RECURSIVE NextPrFile(_, _)
NextPrFile(input, i) ==
    IF i > Len(input) THEN i
    ELSE IF input[i].status = "removed" THEN NextPrFile(input, i + 1)
    ELSE i

\* index_pr: go to changed file i (or return when the list is exhausted)
EnterPrFile(rec, i) ==
    LET j == NextPrFile(rec.input, i) IN
    IF j > Len(rec.input) THEN Returned(rec)
    ELSE [rec EXCEPT !.phase = "files", !.fi = j, !.ci = 0, !.pc = "fetch"]

\* index_repository: go to file i of the cloned files
EnterRepoFile(rec, i) ==
    IF i > Len(rec.input) THEN Returned(rec)
    ELSE [rec EXCEPT !.fi = i, !.ci = 1, !.current_line = 1,
                     !.pc = "check"]

\* the loop goes on with the chunk after the current one
NextChunk(rec) ==
    IF rec.op = "upsert_chunks"
    THEN IF rec.ci < Len(rec.input)
         THEN [rec EXCEPT !.ci = rec.ci + 1, !.pc = "check"]
         ELSE Returned(rec)
    ELSE IF rec.ci < Len(CurChunks(rec))
    THEN [rec EXCEPT !.ci = rec.ci + 1,
                     !.current_line = EndLine(rec) + 1,
                     !.pc = IF rec.op = "index_pr" /\ rec.phase = "files"
                            THEN "embed" ELSE "check"]
    ELSE CASE rec.op = "index_repository" -> EnterRepoFile(rec, rec.fi + 1)
           [] rec.op = "index_pr" /\ rec.phase = "diff" -> EnterPrFile(rec, 1)
           [] rec.op = "index_pr" /\ rec.phase = "files" ->
                 EnterPrFile(rec, rec.fi + 1)
           [] OTHER -> Returned(rec)

\* the except clause that encloses the chunk's calls
HandleException(rec) ==
    CASE rec.op = "index_repository" ->
            EnterRepoFile([rec EXCEPT !.errors = rec.errors + 1], rec.fi + 1)
      [] rec.op = "upsert_chunks" -> Raised(rec, "store")
      [] OTHER -> NextChunk([rec EXCEPT !.errors = rec.errors + 1])

(***************************************************************************)
(* Start of a run: the fetches before the loops.  Runs are numbered in the *)
(* order in which they start.                                              *)
(***************************************************************************)
CanStart(r) ==
    /\ run[r].pc = "idle"
    /\ \A q \in Runs : q < r => run[q].pc # "idle"

\* a provider call fails
Fault ==
    /\ faults < MaxFaults
    /\ faults' = faults + 1

Begin(op) == [IdleRun EXCEPT !.op = op, !.preds = Finished]

StartRepo(r) ==
    /\ CanStart(r)
    /\ LET cloned == SelectSeq(Paths, LAMBDA p : files[p] # <<>>) IN
       run' = [run EXCEPT ![r] =
                 EnterRepoFile([Begin("index_repository") EXCEPT
                                   !.input = cloned, !.phase = "files"], 1)]
    /\ UNCHANGED <<store, files, head, page, faults, retVars, rerVars, intVars, libVars>>

StartRepoFail(r) ==
    /\ CanStart(r)
    /\ \E why \in {"fetch_listing", "fetch_file"} :
         run' = [run EXCEPT ![r] = Raised(Begin("index_repository"), why)]
    /\ Fault /\ UNCHANGED <<store, files, head, page, retVars, rerVars, intVars, libVars>>

StartPr(r) ==
    /\ CanStart(r)
    /\ run' = [run EXCEPT ![r] =
                 [Begin("index_pr") EXCEPT
                     !.head_sha = HeadShas[head], !.input = PrFiles,
                     !.phase = "diff", !.ci = 1, !.pc = "check"]]
    /\ UNCHANGED <<store, files, head, page, faults, retVars, rerVars, intVars, libVars>>

StartPrFail(r) ==
    /\ CanStart(r)
    /\ run' = [run EXCEPT ![r] = Raised(Begin("index_pr"), "fetch_pr")]
    /\ Fault /\ UNCHANGED <<store, files, head, page, retVars, rerVars, intVars, libVars>>

StartNotion(r) ==
    /\ CanStart(r)
    /\ run' = [run EXCEPT ![r] =
                 IF page = <<>>
                 THEN Returned(Begin("index_notion_page"))
                 ELSE [Begin("index_notion_page") EXCEPT
                          !.input = page, !.phase = "page",
                          !.ci = 1, !.pc = "check"]]
    /\ UNCHANGED <<store, files, head, page, faults, retVars, rerVars, intVars, libVars>>

StartNotionFail(r) ==
    /\ CanStart(r)
    /\ run' = [run EXCEPT ![r] =
                 Raised(Begin("index_notion_page"), "fetch_page")]
    /\ Fault /\ UNCHANGED <<store, files, head, page, retVars, rerVars, intVars, libVars>>

StartUpsert(r) ==
    /\ CanStart(r)
    /\ \E in \in UpsertInputs :
         run' = [run EXCEPT ![r] =
                   [Begin("upsert_chunks") EXCEPT
                       !.input = in, !.phase = "records",
                       !.ci = 1, !.pc = "check"]]
    /\ UNCHANGED <<store, files, head, page, faults, retVars, rerVars, intVars, libVars>>

(***************************************************************************)
(* The steps of the loops; every remote call is one step.                  *)
(***************************************************************************)
FetchFile(r) ==
    /\ run[r].pc = "fetch"
    /\ LET rec == run[r]
           content == files[rec.input[rec.fi].filename] IN
       run' = [run EXCEPT ![r] =
                 IF content = <<>>
                 THEN EnterPrFile(rec, rec.fi + 1)
                 ELSE [rec EXCEPT !.ci = 1, !.current_line = 1,
                                  !.pc = "embed"]]
    /\ UNCHANGED <<store, files, head, page, faults, retVars, rerVars, intVars, libVars>>

FetchFileFail(r) ==
    /\ run[r].pc = "fetch"
    /\ run' = [run EXCEPT ![r] = Raised(run[r], "fetch_file")]
    /\ Fault /\ UNCHANGED <<store, files, head, page, retVars, rerVars, intVars, libVars>>

Check(r) ==
    /\ run[r].pc = "check"
    /\ LET rec == run[r] IN
       run' = [run EXCEPT ![r] =
                 IF Existing(store, rec)
                 THEN NextChunk([rec EXCEPT
                        !.skipped = rec.skipped + 1,
                        !.skipPos = rec.skipPos \cup {CurPos(rec)},
                        !.skips = rec.skips \cup
                                    {IdentityKey(NewRow(rec, r))}])
                 ELSE [rec EXCEPT !.pc =
                        IF rec.op = "index_pr" /\ rec.phase = "files"
                        THEN "insert"
                        ELSE IF rec.op = "upsert_chunks" THEN "insert"
                        ELSE "embed"]]
    /\ UNCHANGED <<store, files, head, page, faults, retVars, rerVars, intVars, libVars>>

CheckFail(r) ==
    /\ run[r].pc = "check"
    /\ run' = [run EXCEPT ![r] = HandleException(run[r])]
    /\ Fault /\ UNCHANGED <<store, files, head, page, retVars, rerVars, intVars, libVars>>

Embed(r) ==
    /\ run[r].pc = "embed"
    /\ LET rec == run[r] IN
       run' = [run EXCEPT ![r] =
                 [rec EXCEPT !.embedLog = rec.embedLog \cup {CurPos(rec)},
                             !.pc = IF rec.op = "index_pr"
                                       /\ rec.phase = "files"
                                    THEN "check" ELSE "insert"]]
    /\ UNCHANGED <<store, files, head, page, faults, retVars, rerVars, intVars, libVars>>

EmbedFail(r) ==
    /\ run[r].pc = "embed"
    /\ run' = [run EXCEPT ![r] = HandleException(run[r])]
    /\ Fault /\ UNCHANGED <<store, files, head, page, retVars, rerVars, intVars, libVars>>

Insert(r) ==
    /\ run[r].pc = "insert"
    /\ store' = Append(store, NewRow(run[r], r))
    /\ run' = [run EXCEPT ![r] =
                 NextChunk([run[r] EXCEPT !.indexed = run[r].indexed + 1])]
    /\ UNCHANGED <<files, head, page, faults, retVars, rerVars, intVars, libVars>>

InsertFail(r) ==
    /\ run[r].pc = "insert"
    /\ run' = [run EXCEPT ![r] = HandleException(run[r])]
    /\ Fault /\ UNCHANGED <<store, files, head, page, retVars, rerVars, intVars, libVars>>

\* a push to the pull request: a new head, same diff and file contents
Push ==
    /\ head < Len(HeadShas)
    /\ head' = head + 1
    /\ UNCHANGED <<store, run, files, page, faults, retVars, rerVars, intVars, libVars>>

\* the query path at rest
LibIdle ==
    /\ emb = [pc |-> "idle"]
    /\ disc = [pc |-> "idle"]
    /\ lm = [pc |-> "idle"]
    /\ pri = [pc |-> "idle"]
    /\ prb = [pc |-> "idle"]

IntentIdle ==
    /\ patterns = <<>>
    /\ cls = [done |-> FALSE, query |-> <<>>]
    /\ LibIdle

RerankIdle ==
    /\ IntentIdle
    /\ env = [ENABLE_RERANK |-> TRUE, ENABLE_DIVERSITY |-> TRUE,
              cohere_api_key |-> FALSE, openai_client |-> FALSE]
    /\ rk = [pc |-> "input", candidates |-> <<>>, top_k |-> 0,
             calls |-> <<>>]
    /\ rres = [done |-> FALSE]

QueryIdle ==
    /\ hits = <<>>
    /\ ret = [done |-> FALSE]
    /\ RerankIdle

InitIndex ==
    /\ store = <<>>
    /\ run = [r \in Runs |-> IdleRun]
    /\ files \in {f \in [{"a.py", "b.py"} -> {<<>>, <<"c1">>, <<"c1", "c2">>}] :
                    f["a.py"] = <<"c1", "c2">> /\ Len(f["b.py"]) <= 1}
    /\ head = 1
    /\ page \in {<<>>, <<"c1">>}
    /\ faults = 0
    /\ QueryIdle

NextIndex ==
    \/ \E r \in Runs : StartRepo(r)
    \/ \E r \in Runs : StartRepoFail(r)
    \/ \E r \in Runs : StartPr(r)
    \/ \E r \in Runs : StartPrFail(r)
    \/ \E r \in Runs : StartNotion(r)
    \/ \E r \in Runs : StartNotionFail(r)
    \/ \E r \in Runs : StartUpsert(r)
    \/ \E r \in Runs : FetchFile(r)
    \/ \E r \in Runs : FetchFileFail(r)
    \/ \E r \in Runs : Check(r)
    \/ \E r \in Runs : CheckFail(r)
    \/ \E r \in Runs : Embed(r)
    \/ \E r \in Runs : EmbedFail(r)
    \/ \E r \in Runs : Insert(r)
    \/ \E r \in Runs : InsertFail(r)
    \/ Push

SpecIndex == InitIndex /\ [][NextIndex]_vars

(***************************************************************************)
(* Indexing claims.                                                        *)
(***************************************************************************)

\* C1: a chunk is skipped as a duplicate only if some stored row agrees
\* with it on every component of the identity key (repo, source_type,
\* path / source_id, pr_number, head_sha, content_hash).
C1_SkipOnlyOnIdentityMatch ==
    \A r \in Runs : \A k \in run[r].skips :
        \E i \in DOMAIN store : IdentityKey(store[i]) = k

\* C2: a second run of the same operation on unchanged source content,
\* started after a first run returned with errors = 0, inserts no row
\* (indexed = 0, no stored row written by it) and, when it returns without
\* provider failures of its own, counts every chunk as skipped.
SameSource(a, b) ==
    /\ run[a].op = run[b].op
    /\ run[a].input = run[b].input
    /\ run[a].head_sha = run[b].head_sha

C2_Idempotent ==
    \A a, b \in Runs :
        (a \in run[b].preds /\ run[a].errors = 0 /\ SameSource(a, b)) =>
            /\ run[b].indexed = 0
            /\ \A i \in DOMAIN store : store[i].by # b
            /\ (run[b].result = "returned" /\ run[b].errors = 0) =>
                    run[b].skipped = run[a].indexed + run[a].skipped

C2_Witness ==
    \E a, b \in Runs :
        /\ a \in run[b].preds /\ run[a].errors = 0 /\ SameSource(a, b)
        /\ run[a].indexed >= 2
        /\ run[b].result = "returned"
        /\ run[b].skipped = run[a].indexed

\* C3: the store never holds two rows written by the indexing runs that
\* have the same identity key, however the runs are interleaved.
C3_NoDuplicateIdentity ==
    \A i, j \in DOMAIN store :
        (i # j /\ store[i].user_id # NULL /\ store[j].user_id # NULL) =>
            IdentityKey(store[i]) # IdentityKey(store[j])

\* C4: no run issues an embedding call for a chunk that it then skips as
\* already stored.
C4_NoEmbedBeforeSkip ==
    \A r \in Runs : run[r].embedLog \cap run[r].skipPos = {}

\* C5: the failure of fetching, chunking, embedding or storing one file
\* or one chunk never aborts an indexing run.
C5_OneFailureNeverAborts ==
    \A r \in Runs :
        ~ (/\ run[r].op \in IndexOps
           /\ run[r].result = "raised"
           /\ run[r].cause = "fetch_file")

\* a row of the PR overlay of head sha that holds the chunk: what a
\* pr_overlay search filtered on (repo, pr_number, head_sha) can return
OverlayRow(st, source_type, path, sha, chunk) ==
    \E i \in DOMAIN st :
        /\ st[i].user_id = USER
        /\ st[i].repo = REPO
        /\ st[i].pr_number = PR
        /\ st[i].head_sha = sha
        /\ st[i].source_type = source_type
        /\ st[i].path = path
        /\ st[i].content_hash = compute_content_hash(chunk)

\* C27: after index_pr completes without errors for a PR whose head is S,
\* every chunk of the diff and of the non-removed changed files is stored
\* in a row carrying head_sha = S, chunks unchanged since an earlier head
\* included.
C27_OverlayCompleteAtHead ==
    \A r \in Runs :
        (run[r].op = "index_pr" /\ run[r].result = "returned"
            /\ run[r].errors = 0) =>
            /\ \A c \in DOMAIN PrDiff :
                  OverlayRow(store, "diff", NULL, run[r].head_sha, PrDiff[c])
            /\ \A f \in DOMAIN PrFiles :
                  PrFiles[f].status # "removed" =>
                     \A c \in DOMAIN files[PrFiles[f].filename] :
                        OverlayRow(store, "code", PrFiles[f].filename,
                                   run[r].head_sha,
                                   files[PrFiles[f].filename][c])

(***************************************************************************)
(* Scoped retrieval (services/rag/retrieval.py).  Scores are exact         *)
(* rationals: raw similarities are counted in tenths, a normalized or      *)
(* weighted score is a fraction [n, d] with d > 0.                         *)
(***************************************************************************)
\* highest raw similarity (in tenths) a stored row has to the query
MaxRaw == 7
\* largest top_k a caller passes
MaxTopK == 3
\* RetrievalScope.min_score = 0.5 and k = 30
MinScore == 5
ScopeK == 30

Intents == <<"standards_policy", "implementation_debug", "process", "general">>

\* INTENT_SCOPE_WEIGHTS, in tenths
INTENT_SCOPE_WEIGHTS ==
    [standards_policy |->
        [notion |-> 15, repo_doc |-> 13, code |-> 7, diff |-> 5],
     implementation_debug |->
        [code |-> 15, diff |-> 14, repo_doc |-> 10, notion |-> 6],
     process |->
        [notion |-> 15, repo_doc |-> 14, code |-> 5, diff |-> 4],
     general |->
        [code |-> 10, diff |-> 10, repo_doc |-> 10, notion |-> 10]]

\* the rows of rag_chunks the query can hit
RetRows ==
    << [id |-> 1, user_id |-> USER, repo |-> REPO, source_type |-> "code",
        pr_number |-> PR],
       [id |-> 2, user_id |-> USER, repo |-> REPO, source_type |-> "diff",
        pr_number |-> PR],
       [id |-> 3, user_id |-> USER, repo |-> REPO, source_type |-> "code",
        pr_number |-> NULL],
       [id |-> 4, user_id |-> USER, repo |-> REPO, source_type |-> "repo_doc",
        pr_number |-> NULL],
       [id |-> 5, user_id |-> USER, repo |-> "notion",
        source_type |-> "notion", pr_number |-> NULL] >>

Ids == DOMAIN RetRows

Frac(n, d) == [n |-> n, d |-> d]
FracLeq(a, b) == a.n * b.d <= b.n * a.d
FracEq(a, b) == a.n * b.d = b.n * a.d
FracLt(a, b) == a.n * b.d < b.n * a.d

\* (mutation) the repo_docs scope comes before the pr_overlay scope
build_scopes_RepoFirst(user_id, repo, pr_number) ==
    (IF repo # NULL
     THEN << [scope_type |-> "repo_docs",
              source_types |-> {"code", "repo_doc"},
              filters |-> [user_id |-> user_id, repo |-> repo,
                           pr_number |-> NULL],
              k |-> ScopeK, min_score |-> MinScore] >>
     ELSE <<>>)
    \o
    (IF pr_number # NULL
     THEN << [scope_type |-> "pr_overlay", source_types |-> {"code", "diff"},
              filters |-> [user_id |-> user_id, repo |-> repo,
                           pr_number |-> pr_number],
              k |-> ScopeK, min_score |-> MinScore] >>
     ELSE <<>>)
    \o
    << [scope_type |-> "notion", source_types |-> {"notion"},
        filters |-> [user_id |-> user_id, repo |-> NULL,
                     pr_number |-> NULL],
        k |-> ScopeK, min_score |-> MinScore] >>

build_scopes(user_id, repo, pr_number) ==
    (IF pr_number # NULL
     THEN << [scope_type |-> "pr_overlay", source_types |-> {"code", "diff"},
              filters |-> [user_id |-> user_id, repo |-> repo,
                           pr_number |-> pr_number],
              k |-> ScopeK, min_score |-> MinScore] >>
     ELSE <<>>)
    \o
    (IF repo # NULL
     THEN << [scope_type |-> "repo_docs",
              source_types |-> {"code", "repo_doc"},
              filters |-> [user_id |-> user_id, repo |-> repo,
                           pr_number |-> NULL],
              k |-> ScopeK, min_score |-> MinScore] >>
     ELSE <<>>)
    \o
    << [scope_type |-> "notion", source_types |-> {"notion"},
        filters |-> [user_id |-> user_id, repo |-> NULL,
                     pr_number |-> NULL],
        k |-> ScopeK, min_score |-> MinScore] >>

\* the rows the vector search of one scope matches
Matching(h, scope) ==
    {i \in Ids :
        /\ h[i] >= scope.min_score
        /\ RetRows[i].source_type \in scope.source_types
        /\ RetRows[i].user_id = scope.filters.user_id
        /\ scope.filters.repo # NULL => RetRows[i].repo = scope.filters.repo
        /\ scope.filters.pr_number # NULL =>
               RetRows[i].pr_number = scope.filters.pr_number}

\* rows ranked by similarity, best first
RECURSIVE Ranked(_, _)
Ranked(h, S) ==
    IF S = {} THEN <<>>
    ELSE LET best == CHOOSE i \in S :
                        \A j \in S : h[j] < h[i] \/ (h[j] = h[i] /\ i <= j)
         IN <<[id |-> best, score |-> h[best],
               source_type |-> RetRows[best].source_type]>>
            \o Ranked(h, S \ {best})

\* failing: the scopes whose match_chunks_user call raises; the except
\* branch logs and returns []
search_scope(h, scope, failing) ==
    IF scope.scope_type \in failing THEN <<>>
    ELSE LET rows == Ranked(h, Matching(h, scope)) IN
         SubSeq(rows, 1, IF Len(rows) < scope.k THEN Len(rows) ELSE scope.k)

RECURSIVE SeqMin(_)
SeqMin(s) ==
    IF Len(s) = 1 THEN s[1]
    ELSE LET m == SeqMin(Tail(s)) IN IF s[1] <= m THEN s[1] ELSE m

RECURSIVE SeqMax(_)
SeqMax(s) ==
    IF Len(s) = 1 THEN s[1]
    ELSE LET m == SeqMax(Tail(s)) IN IF s[1] >= m THEN s[1] ELSE m

\* (mutation) the scores are divided by the maximum
normalize_scores_ByMax(chunks, scope_type) ==
    IF chunks = <<>> THEN <<>>
    ELSE LET scores == [i \in DOMAIN chunks |-> chunks[i].score]
             max_score == SeqMax(scores)
         IN [i \in DOMAIN chunks |->
               [chunk |-> chunks[i], raw_score |-> chunks[i].score,
                normalized_score |-> Frac(chunks[i].score, max_score),
                weighted_score |-> Frac(chunks[i].score, max_score),
                scope_type |-> scope_type]]

normalize_scores(chunks, scope_type) ==
    IF chunks = <<>> THEN <<>>
    ELSE LET scores == [i \in DOMAIN chunks |-> chunks[i].score]
             min_score == SeqMin(scores)
             max_score == SeqMax(scores)
             score_range == max_score - min_score
             normalized(raw) == IF score_range > 0
                                THEN Frac(raw - min_score, score_range)
                                ELSE Frac(1, 1)
         IN [i \in DOMAIN chunks |->
               [chunk |-> chunks[i], raw_score |-> chunks[i].score,
                normalized_score |-> normalized(chunks[i].score),
                weighted_score |-> normalized(chunks[i].score),
                scope_type |-> scope_type]]

apply_intent_weights(scored_chunks, weights) ==
    [i \in DOMAIN scored_chunks |->
        [scored_chunks[i] EXCEPT !.weighted_score =
            Frac(scored_chunks[i].normalized_score.n
                    * weights[scored_chunks[i].chunk.source_type],
                 scored_chunks[i].normalized_score.d * 10)]]

\* keep the first chunk of every id
RECURSIVE Dedup(_, _)
Dedup(s, seen_ids) ==
    IF s = <<>> THEN <<>>
    ELSE IF s[1].chunk.id \in seen_ids THEN Dedup(Tail(s), seen_ids)
    ELSE <<s[1]>> \o Dedup(Tail(s), seen_ids \cup {s[1].chunk.id})

\* list.sort(key = weighted_score, reverse = True): stable, descending
RECURSIVE InsertDesc(_, _)
InsertDesc(s, x) ==
    IF s = <<>> THEN <<x>>
    ELSE IF FracLt(s[1].weighted_score, x.weighted_score) THEN <<x>> \o s
    ELSE <<s[1]>> \o InsertDesc(Tail(s), x)

RECURSIVE SortDesc(_)
SortDesc(s) ==
    IF s = <<>> THEN <<>>
    ELSE InsertDesc(SortDesc(SubSeq(s, 1, Len(s) - 1)), s[Len(s)])

Take(s, n) == SubSeq(s, 1, IF Len(s) < n THEN Len(s) ELSE n)

\* (mutation) sorts first and then drops the repeated ids
merge_and_sort_SortFirst(all_chunks, top_k) ==
    Take(Dedup(SortDesc(all_chunks), {}), top_k)

merge_and_sort(all_chunks, top_k) ==
    Take(SortDesc(Dedup(all_chunks, {})), top_k)

\* the loop of retrieve over the scopes: every scope's chunks, scored
RECURSIVE ScoreScopes(_, _, _, _)
ScoreScopes(h, scopes, weights, failing) ==
    IF scopes = <<>> THEN <<>>
    ELSE apply_intent_weights(
             normalize_scores(search_scope(h, scopes[1], failing),
                              scopes[1].scope_type), weights)
         \o ScoreScopes(h, Tail(scopes), weights, failing)

\* stats["scopes"][scope_type]["count"] = len(results)
ScopeStats(h, scopes, failing) ==
    [k \in DOMAIN scopes |->
        [scope_type |-> scopes[k].scope_type,
         count |-> Len(search_scope(h, scopes[k], failing))]]

ScopeTypes == {"pr_overlay", "repo_docs", "notion"}

\* no search fails, or the search of one scope does
FailingChoices == {{}} \cup {{t} : t \in ScopeTypes}

\* a row with similarity s to the query is in the store
SetScore(i, s) ==
    /\ ~ ret.done
    /\ hits[i] = 0
    /\ hits' = [hits EXCEPT ![i] = s]
    /\ UNCHANGED <<idxVars, ret, rerVars, intVars, libVars>>

Retrieve(intent, repo, pr_number, top_k, failing) ==
    /\ ~ ret.done
    /\ LET scopes == build_scopes(USER, repo, pr_number)
           all_scored_chunks ==
               ScoreScopes(hits, scopes, INTENT_SCOPE_WEIGHTS[intent], failing)
       IN ret' = [done |-> TRUE, raised |-> "none",
                  intent |-> intent, top_k |-> top_k,
                  repo |-> repo, pr_number |-> pr_number,
                  scopes |-> scopes, failing |-> failing,
                  stats |-> ScopeStats(hits, scopes, failing),
                  all_scored_chunks |-> all_scored_chunks,
                  candidates |-> merge_and_sort(all_scored_chunks, top_k)]
    /\ UNCHANGED <<idxVars, hits, rerVars, intVars, libVars>>

\* self.embed_func(query) raises: nothing in retrieve catches it
RetrieveEmbedFails(intent, top_k) ==
    /\ ~ ret.done
    /\ ret' = [done |-> TRUE, raised |-> "embed_func",
               intent |-> intent, top_k |-> top_k,
               repo |-> NULL, pr_number |-> NULL,
               scopes |-> <<>>, failing |-> {}, stats |-> <<>>,
               all_scored_chunks |-> <<>>, candidates |-> <<>>]
    /\ UNCHANGED <<idxVars, hits, rerVars, intVars, libVars>>

\* the indexing side at rest
IndexIdle ==
    /\ store = <<>>
    /\ run = [r \in Runs |-> IdleRun]
    /\ files = [p \in {"a.py", "b.py"} |-> <<>>]
    /\ head = 1
    /\ page = <<>>
    /\ faults = 0

InitRetrieve ==
    /\ IndexIdle
    /\ hits = [i \in Ids |-> 0]
    /\ ret = [done |-> FALSE]
    /\ RerankIdle

NextRetrieve ==
    \/ \E i \in Ids, s \in MinScore..MaxRaw : SetScore(i, s)
    \/ \E intent \in {Intents[k] : k \in DOMAIN Intents},
          repo \in {NULL, REPO}, pr_number \in {NULL, PR},
          top_k \in 0..MaxTopK, failing \in FailingChoices :
            Retrieve(intent, repo, pr_number, top_k, failing)
    \/ \E intent \in {Intents[k] : k \in DOMAIN Intents},
          top_k \in 0..MaxTopK :
            RetrieveEmbedFails(intent, top_k)

SpecRetrieve == InitRetrieve /\ [][NextRetrieve]_vars

(***************************************************************************)
(* Retrieval claims.                                                       *)
(***************************************************************************)
FirstCopy(all, id) ==
    all[CHOOSE i \in DOMAIN all :
            /\ all[i].chunk.id = id
            /\ \A j \in DOMAIN all : all[j].chunk.id = id => i <= j]

\* C8: merge_and_sort returns at most top_k chunks with pairwise distinct
\* ids in non-increasing weighted_score order; the copy kept of an id is
\* the first one in scope order; every id left out has a kept copy that
\* scores no higher than the lowest returned chunk.
C8_MergeAndSort ==
    ret.done =>
        LET c == ret.candidates
            all == ret.all_scored_chunks
            retIds == {c[i].chunk.id : i \in DOMAIN c}
        IN /\ Len(c) <= ret.top_k
           /\ \A i, j \in DOMAIN c : i # j => c[i].chunk.id # c[j].chunk.id
           /\ \A i, j \in DOMAIN c :
                 i < j => FracLeq(c[j].weighted_score, c[i].weighted_score)
           /\ \A i \in DOMAIN c : c[i] = FirstCopy(all, c[i].chunk.id)
           /\ \A k \in DOMAIN all :
                 (all[k].chunk.id \notin retIds /\ c # <<>>) =>
                    FracLeq(FirstCopy(all, all[k].chunk.id).weighted_score,
                            c[Len(c)].weighted_score)

\* an id returned by two scopes whose later copy scores higher than the
\* kept one, with a chunk cut off by top_k
C8_Witness ==
    /\ ret.done
    /\ Len(ret.candidates) = ret.top_k
    /\ Len(ret.candidates) >= 2
    /\ \E i, j \in DOMAIN ret.all_scored_chunks :
          /\ i < j
          /\ ret.all_scored_chunks[i].chunk.id
                = ret.all_scored_chunks[j].chunk.id
          /\ FracLt(ret.all_scored_chunks[i].weighted_score,
                    ret.all_scored_chunks[j].weighted_score)
    /\ \E k \in DOMAIN ret.all_scored_chunks :
          \A i \in DOMAIN ret.candidates :
             ret.candidates[i].chunk.id
                # ret.all_scored_chunks[k].chunk.id

ScopeChunks(all, st) == SelectSeq(all, LAMBDA sc : sc.scope_type = st)

\* C9: within one scope every chunk gets (raw - min) / (max - min) over
\* that scope's raw scores alone, the best chunk 1 and the worst 0; when
\* all raw scores are equal every chunk gets 1; normalized scores lie in
\* [0, 1] and keep the order of the raw scores.
C9_NormalizeScores ==
    ret.done =>
        \A k \in DOMAIN ret.scopes :
            LET sc == ScopeChunks(ret.all_scored_chunks,
                                  ret.scopes[k].scope_type)
                raws == {sc[i].raw_score : i \in DOMAIN sc}
                lo == CHOOSE x \in raws : \A y \in raws : x <= y
                hi == CHOOSE x \in raws : \A y \in raws : x >= y
            IN sc # <<>> =>
                /\ Len(sc) = Len(search_scope(hits, ret.scopes[k], ret.failing))
                /\ \A i \in DOMAIN sc :
                      /\ IF hi > lo
                         THEN FracEq(sc[i].normalized_score,
                                     Frac(sc[i].raw_score - lo, hi - lo))
                         ELSE FracEq(sc[i].normalized_score, Frac(1, 1))
                      /\ sc[i].normalized_score.d > 0
                      /\ FracLeq(Frac(0, 1), sc[i].normalized_score)
                      /\ FracLeq(sc[i].normalized_score, Frac(1, 1))
                      /\ sc[i].raw_score = hi =>
                            FracEq(sc[i].normalized_score, Frac(1, 1))
                      /\ (sc[i].raw_score = lo /\ hi > lo) =>
                            FracEq(sc[i].normalized_score, Frac(0, 1))
                /\ \A i, j \in DOMAIN sc :
                      sc[i].raw_score < sc[j].raw_score =>
                         FracLt(sc[i].normalized_score,
                                sc[j].normalized_score)

\* one scope with three different raw scores, another with a single result
C9_Witness ==
    /\ ret.done
    /\ \E k \in DOMAIN ret.scopes :
          LET sc == ScopeChunks(ret.all_scored_chunks,
                                ret.scopes[k].scope_type)
          IN /\ Len(sc) = 3
             /\ \E i \in DOMAIN sc :
                   /\ FracLt(Frac(0, 1), sc[i].normalized_score)
                   /\ FracLt(sc[i].normalized_score, Frac(1, 1))
    /\ \E k \in DOMAIN ret.scopes :
          LET sc == ScopeChunks(ret.all_scored_chunks,
                                ret.scopes[k].scope_type)
          IN /\ Len(sc) = 1
             /\ sc[1].raw_score < MaxRaw
             /\ FracEq(sc[1].normalized_score, Frac(1, 1))


\* C22: retrieve never raises because a provider call failed: a failure
\* of the query-embedding call or of the vector search of one scope is
\* caught, a failing scope contributes no candidate (its stats count is
\* 0), the other scopes are still searched and their merged results are
\* returned.
C22_RetrieveNeverRaises ==
    ret.done =>
        /\ ret.raised = "none"
        /\ \A k \in DOMAIN ret.scopes :
              /\ ret.stats[k].scope_type = ret.scopes[k].scope_type
              /\ ret.stats[k].count =
                    IF ret.scopes[k].scope_type \in ret.failing THEN 0
                    ELSE Len(search_scope(hits, ret.scopes[k], {}))
              /\ ret.scopes[k].scope_type \in ret.failing =>
                    ScopeChunks(ret.all_scored_chunks,
                                ret.scopes[k].scope_type) = <<>>
        /\ ret.candidates =
              merge_and_sort(
                  ScoreScopes(hits,
                      SelectSeq(ret.scopes,
                                LAMBDA sc : sc.scope_type \notin ret.failing),
                      INTENT_SCOPE_WEIGHTS[ret.intent], {}),
                  ret.top_k)

ScopeTypeSeq(scopes) == [k \in DOMAIN scopes |-> scopes[k].scope_type]

\* C23: build_scopes returns, in this order, a pr_overlay scope (code and
\* diff) iff a PR number is given, a repo_docs scope (code and repo_doc)
\* iff a repo is given, and always a notion scope; every scope carries the
\* caller's user_id in its filters, so no vector search is issued without
\* a user filter.
C23_BuildScopes ==
    (ret.done /\ ret.raised = "none") =>
        /\ ScopeTypeSeq(ret.scopes) =
              (IF ret.pr_number # NULL THEN <<"pr_overlay">> ELSE <<>>)
              \o (IF ret.repo # NULL THEN <<"repo_docs">> ELSE <<>>)
              \o <<"notion">>
        /\ \A k \in DOMAIN ret.scopes :
              /\ ret.scopes[k].filters.user_id = USER
              /\ ret.scopes[k].source_types =
                    CASE ret.scopes[k].scope_type = "pr_overlay" ->
                            {"code", "diff"}
                      [] ret.scopes[k].scope_type = "repo_docs" ->
                            {"code", "repo_doc"}
                      [] OTHER -> {"notion"}
              /\ \A i \in DOMAIN ret.all_scored_chunks :
                    RetRows[ret.all_scored_chunks[i].chunk.id].user_id = USER

\* a query with a PR number and a repo: three scopes
C23_Witness ==
    /\ ret.done /\ ret.raised = "none"
    /\ ret.pr_number # NULL /\ ret.repo # NULL
    /\ Len(ret.scopes) = 3
    /\ ret.all_scored_chunks # <<>>
(***************************************************************************)
(* Reranking and the diversity filter (services/rag/reranker.py).          *)
(***************************************************************************)
\* longest candidate list handed to rerank
MaxCands == 4
\* longest index list a rerank provider answers with
MaxProv == 2

MAX_CHUNKS_PER_DOC == 2
MIN_DISTINCT_SOURCES == 2

\* the chunk dicts behind the candidates; NULL is a column the row leaves
\* empty (the diff rows of index_pr carry no path)
RerankChunks ==
    << [id |-> 1, source_type |-> "code", path |-> "a.py", url |-> NULL,
        source_id |-> NULL],
       [id |-> 2, source_type |-> "code", path |-> "a.py", url |-> NULL,
        source_id |-> NULL],
       [id |-> 3, source_type |-> "code", path |-> "a.py", url |-> NULL,
        source_id |-> NULL],
       [id |-> 4, source_type |-> "notion", path |-> NULL, url |-> NULL,
        source_id |-> PAGE],
       [id |-> 5, source_type |-> "diff", path |-> NULL, url |-> NULL,
        source_id |-> NULL] >>

\* ScoredChunk.doc_key; dict.get returns None (NULL) for a key that is
\* present with a null value
doc_key(chunk) ==
    IF chunk.source_type \in {"code", "diff", "repo_doc"} THEN chunk.path
    ELSE IF chunk.source_type = "notion"
    THEN IF chunk.url # NULL THEN chunk.url ELSE chunk.source_id
    ELSE "unknown"

CountKey(chunks, picked, key) ==
    Cardinality({i \in DOMAIN picked : doc_key(chunks[picked[i]]) = key})

\* (mutation) the per-document limit is tested with > instead of >=
RECURSIVE DiversityWalk_OffByOne(_, _, _, _)
DiversityWalk_OffByOne(chunks, i, top_k, picked) ==
    IF i > Len(chunks) \/ Len(picked) >= top_k
    THEN [picked |-> picked, raised |-> "none"]
    ELSE IF CountKey(chunks, picked, doc_key(chunks[i])) > MAX_CHUNKS_PER_DOC
    THEN DiversityWalk_OffByOne(chunks, i + 1, top_k, picked)
    ELSE IF doc_key(chunks[i]) = NULL
    THEN [picked |-> Append(picked, i), raised |-> "TypeError"]
    ELSE DiversityWalk_OffByOne(chunks, i + 1, top_k, Append(picked, i))

\* the loop of _apply_diversity from position i on; picked are the
\* positions admitted so far.  doc_key[:30] raises TypeError on None.
RECURSIVE DiversityWalk(_, _, _, _)
DiversityWalk(chunks, i, top_k, picked) ==
    IF i > Len(chunks) \/ Len(picked) >= top_k
    THEN [picked |-> picked, raised |-> "none"]
    ELSE IF CountKey(chunks, picked, doc_key(chunks[i])) >= MAX_CHUNKS_PER_DOC
    THEN DiversityWalk(chunks, i + 1, top_k, picked)
    ELSE IF doc_key(chunks[i]) = NULL
    THEN [picked |-> Append(picked, i), raised |-> "TypeError"]
    ELSE DiversityWalk(chunks, i + 1, top_k, Append(picked, i))

_apply_diversity(chunks, top_k, method) ==
    IF ~ env.ENABLE_DIVERSITY
    THEN LET n == IF Len(chunks) < top_k THEN Len(chunks) ELSE top_k IN
         [done |-> TRUE, raised |-> "none", method |-> method,
          input |-> chunks, picked |-> [i \in 1..n |-> i],
          chunks |-> SubSeq(chunks, 1, n),
          rerank_scores |-> [i \in 1..n |-> "1.0"],
          rerank_reasons |-> [i \in 1..n |-> "no_diversity"],
          diversity_applied |-> FALSE, diversity_warning |-> FALSE]
    ELSE LET w == DiversityWalk(chunks, 1, top_k, <<>>)
             selected == [i \in DOMAIN w.picked |-> chunks[w.picked[i]]]
             distinct_sources ==
                 Cardinality({selected[i].source_type : i \in DOMAIN selected})
         IN IF w.raised # "none"
            THEN [done |-> TRUE, raised |-> w.raised, method |-> NULL,
                  input |-> chunks, picked |-> w.picked, chunks |-> <<>>,
                  rerank_scores |-> <<>>,
                  rerank_reasons |-> <<>>,
                  diversity_applied |-> FALSE, diversity_warning |-> FALSE]
            ELSE [done |-> TRUE, raised |-> "none", method |-> method,
                  input |-> chunks, picked |-> w.picked,
                  chunks |-> selected,
                  rerank_scores |->
                      [i \in DOMAIN selected |->
                          <<"weighted_score", selected[i].id>>],
                  rerank_reasons |->
                      [i \in DOMAIN selected |-> doc_key(selected[i])],
                  diversity_applied |-> TRUE,
                  diversity_warning |->
                      (distinct_sources < MIN_DISTINCT_SOURCES
                         /\ Len(chunks) > Len(selected))]

\* candidates[idx] for the indices a provider answered with (0-based),
\* out-of-range indices dropped
RECURSIVE Reordered(_, _)
Reordered(candidates, indices) ==
    IF indices = <<>> THEN <<>>
    ELSE (IF indices[1] < Len(candidates)
          THEN <<candidates[indices[1] + 1]>> ELSE <<>>)
         \o Reordered(candidates, Tail(indices))

\* the final fallback of rerank; an exception of _apply_diversity reaches
\* the caller here
Passthrough(candidates, top_k) ==
    _apply_diversity(Take(candidates, top_k * 2), top_k, "passthrough")

\* the tier after Cohere: the LLM when a client is configured
AfterCohere(k) ==
    IF env.openai_client
    THEN /\ rk' = [k EXCEPT !.pc = "llm"]
         /\ UNCHANGED rres
    ELSE /\ rk' = [k EXCEPT !.pc = "done"]
         /\ rres' = Passthrough(k.candidates, k.top_k)

AfterLlm(k) ==
    /\ rk' = [k EXCEPT !.pc = "done"]
    /\ rres' = Passthrough(k.candidates, k.top_k)

\* a tier's result goes through _apply_diversity inside the tier's try:
\* returned when it does not raise
Return(k, r) ==
    /\ rk' = [k EXCEPT !.pc = "done"]
    /\ rres' = r

AddCandidate(c) ==
    /\ rk.pc = "input"
    /\ Len(rk.candidates) < MaxCands
    /\ \A i \in DOMAIN rk.candidates : rk.candidates[i].id # c
    /\ rk' = [rk EXCEPT !.candidates = Append(rk.candidates, RerankChunks[c])]
    /\ UNCHANGED <<idxVars, retVars, env, rres, intVars, libVars>>

RerankStart(top_k) ==
    /\ rk.pc = "input"
    /\ LET k == [rk EXCEPT !.top_k = top_k] IN
       IF ~ env.ENABLE_RERANK \/ k.candidates = <<>>
       THEN /\ rk' = [k EXCEPT !.pc = "done"]
            /\ rres' = Passthrough(k.candidates, top_k)
       ELSE IF env.cohere_api_key
       THEN /\ rk' = [k EXCEPT !.pc = "cohere"]
            /\ UNCHANGED rres
       ELSE AfterCohere(k)
    /\ UNCHANGED <<idxVars, retVars, env, intVars, libVars>>

\* the Cohere call fails: HTTP error, timeout, malformed body
CohereFails ==
    /\ rk.pc = "cohere"
    /\ AfterCohere([rk EXCEPT !.calls =
          Append(rk.calls, [tier |-> "cohere", outcome |-> "failed"])])
    /\ UNCHANGED <<idxVars, retVars, env, intVars, libVars>>

\* the Cohere call answers with at most top_n = top_k * 2 result indices
CohereAnswers(indices) ==
    /\ rk.pc = "cohere"
    /\ Len(indices) <= rk.top_k * 2
    /\ LET k == [rk EXCEPT !.calls =
                   Append(rk.calls, [tier |-> "cohere", outcome |-> "ok"])]
           r == _apply_diversity(Reordered(k.candidates, indices),
                                 k.top_k, "cohere")
       IN IF r.raised = "none" THEN Return(k, r) ELSE AfterCohere(k)
    /\ UNCHANGED <<idxVars, retVars, env, intVars, libVars>>

\* the chat completion call raises, or its JSON is not an object
LlmFails ==
    /\ rk.pc = "llm"
    /\ AfterLlm([rk EXCEPT !.calls =
          Append(rk.calls, [tier |-> "llm", outcome |-> "failed"])])
    /\ UNCHANGED <<idxVars, retVars, env, intVars, libVars>>

\* json.loads raises JSONDecodeError: candidates[:top_n] in original order
LlmUnparsable ==
    /\ rk.pc = "llm"
    /\ LET k == [rk EXCEPT !.calls =
                   Append(rk.calls, [tier |-> "llm", outcome |-> "unparsable"])]
           r == _apply_diversity(Take(k.candidates, k.top_k * 2),
                                 k.top_k, "llm")
       IN IF r.raised = "none" THEN Return(k, r) ELSE AfterLlm(k)
    /\ UNCHANGED <<idxVars, retVars, env, intVars, libVars>>

\* the LLM answers {"selected": [{"index": i, ...}, ...]}
LlmAnswers(indices) ==
    /\ rk.pc = "llm"
    /\ LET k == [rk EXCEPT !.calls =
                   Append(rk.calls, [tier |-> "llm", outcome |-> "ok"])]
           r == _apply_diversity(Reordered(k.candidates, indices),
                                 k.top_k, "llm")
       IN IF r.raised = "none" THEN Return(k, r) ELSE AfterLlm(k)
    /\ UNCHANGED <<idxVars, retVars, env, intVars, libVars>>

RECURSIVE SeqsUpTo(_, _)
SeqsUpTo(S, n) ==
    IF n = 0 THEN {<<>>}
    ELSE LET shorter == SeqsUpTo(S, n - 1) IN
         shorter \cup {Append(q, x) : q \in shorter, x \in S}

ProviderIndices == SeqsUpTo(0..MaxCands, MaxProv)

InitRerank ==
    /\ IndexIdle
    /\ hits = <<>>
    /\ ret = [done |-> FALSE]
    /\ env \in [ENABLE_RERANK : BOOLEAN, ENABLE_DIVERSITY : BOOLEAN,
                cohere_api_key : BOOLEAN, openai_client : BOOLEAN]
    /\ rk = [pc |-> "input", candidates |-> <<>>, top_k |-> 0,
             calls |-> <<>>]
    /\ rres = [done |-> FALSE]
    /\ IntentIdle

NextRerank ==
    \/ \E c \in DOMAIN RerankChunks : AddCandidate(c)
    \/ \E top_k \in 0..MaxTopK : RerankStart(top_k)
    \/ CohereFails
    \/ \E indices \in ProviderIndices : CohereAnswers(indices)
    \/ LlmFails
    \/ LlmUnparsable
    \/ \E indices \in ProviderIndices : LlmAnswers(indices)

SpecRerank == InitRerank /\ [][NextRerank]_vars

(***************************************************************************)
(* Rerank claims.                                                          *)
(***************************************************************************)
Called(tier) == \E i \in DOMAIN rk.calls : rk.calls[i].tier = tier
CallFailed(tier) ==
    \E i \in DOMAIN rk.calls :
        rk.calls[i].tier = tier /\ rk.calls[i].outcome = "failed"

\* C6: the tiers are tried in the order Cohere, LLM, passthrough; the LLM
\* is called only if no Cohere key is configured or the Cohere call failed;
\* passthrough is used only if no earlier tier produced a result; no
\* provider failure reaches the caller; passthrough keeps the original
\* order of the candidates.
C6_TierOrder ==
    /\ \A i, j \in DOMAIN rk.calls :
          (rk.calls[i].tier = "llm" /\ rk.calls[j].tier = "cohere") => j < i
    /\ Called("llm") => (~ env.cohere_api_key \/ CallFailed("cohere"))
    /\ (rres.done /\ rres.method = "passthrough") =>
          \A i \in DOMAIN rk.calls : rk.calls[i].outcome = "failed"
    /\ rres.done => rres.raised # "provider"
    /\ (rres.done /\ rres.method = "passthrough") =>
          /\ rres.input = Take(rk.candidates, rk.top_k * 2)
          /\ \A i, j \in DOMAIN rres.picked :
                i < j => rres.picked[i] < rres.picked[j]

\* C7: with diversity enabled the returned chunks are an order-preserving
\* subsequence of the filter's input, at most top_k, at most
\* MAX_CHUNKS_PER_DOC per doc_key; a candidate is left out only because
\* its doc_key already has MAX_CHUNKS_PER_DOC admitted chunks or because
\* top_k chunks were admitted before it (so the admitted chunks of a
\* doc_key are its highest-ranked ones).
AdmittedBefore(p) == {i \in DOMAIN rres.picked : rres.picked[i] < p}

C7_DiversityFilter ==
    (rres.done /\ rres.raised = "none" /\ env.ENABLE_DIVERSITY) =>
        LET in == rres.input
            out == rres.chunks
            pk == rres.picked
        IN /\ Len(out) = Len(pk)
           /\ \A i \in DOMAIN pk : pk[i] \in DOMAIN in /\ out[i] = in[pk[i]]
           /\ \A i, j \in DOMAIN pk : i < j => pk[i] < pk[j]
           /\ Len(out) <= rk.top_k
           /\ \A i \in DOMAIN out :
                 Cardinality({j \in DOMAIN out :
                                 doc_key(out[j]) = doc_key(out[i])})
                    <= MAX_CHUNKS_PER_DOC
           /\ \A p \in DOMAIN in :
                 (\A i \in DOMAIN pk : pk[i] # p) =>
                    \/ Cardinality(AdmittedBefore(p)) >= rk.top_k
                    \/ Cardinality({i \in AdmittedBefore(p) :
                          doc_key(in[pk[i]]) = doc_key(in[p])})
                         >= MAX_CHUNKS_PER_DOC

\* three candidates of one document ranked first: the third is dropped
\* and a chunk of another document ranked after it is admitted
C7_Witness ==
    /\ rres.done /\ rres.raised = "none" /\ env.ENABLE_DIVERSITY
    /\ rk.top_k = 3
    /\ Len(rres.input) = 4
    /\ doc_key(rres.input[1]) = doc_key(rres.input[3])
    /\ doc_key(rres.input[2]) = doc_key(rres.input[3])
    /\ rres.picked = <<1, 2, 4>>

\* the outcome of the last provider call of the rerank
LastOutcome(tier) ==
    IF rk.calls = <<>> THEN "none"
    ELSE IF rk.calls[Len(rk.calls)].tier = tier
    THEN rk.calls[Len(rk.calls)].outcome
    ELSE "none"

\* C21: when the LLM tier's response cannot be parsed the LLM tier counts
\* as failed and rerank behaves as the passthrough tier does: the
\* candidates come back in their original order (subject to the diversity
\* filter) and the result's method is "passthrough", not "llm".
C21_UnparsableIsPassthrough ==
    (rres.done /\ rres.raised = "none" /\ LastOutcome("llm") = "unparsable") =>
        /\ rres.chunks = Passthrough(rk.candidates, rk.top_k).chunks
        /\ rres.method = "passthrough"

\* the source types of the chunks the result returns
SourceTypes(chunks) == {chunks[i].source_type : i \in DOMAIN chunks}

\* C20: with diversity enabled, whenever the final selected set holds
\* fewer than MIN_DISTINCT_SOURCES distinct source types the result's
\* stats carries a diversity_warning, and the selected chunks are
\* returned all the same.
C20_DiversityWarning ==
    (rres.done /\ rres.raised = "none" /\ env.ENABLE_DIVERSITY
        /\ Cardinality(SourceTypes(rres.chunks)) < MIN_DISTINCT_SOURCES) =>
        /\ rres.diversity_warning
        /\ rres.chunks = [i \in DOMAIN rres.picked |-> rres.input[rres.picked[i]]]

\* C28: whenever candidates is non-empty and top_k >= 1, rerank returns
\* at least one chunk, whichever tier produced the ordering and whatever
\* that tier's provider answered.
C28_NeverEmpty ==
    (rres.done /\ rres.raised = "none"
        /\ rk.candidates # <<>> /\ rk.top_k >= 1) =>
        Len(rres.chunks) >= 1

\* C29: the chunks rerank returns are distinct members of the candidates
\* list, whatever indices the provider returned, and rerank_scores and
\* rerank_reasons have the length of chunks.
C29_DistinctChunks ==
    (rres.done /\ rres.raised = "none") =>
        /\ \A i \in DOMAIN rres.chunks :
              \E c \in DOMAIN rk.candidates :
                 rres.chunks[i] = rk.candidates[c]
        /\ \A i, j \in DOMAIN rres.chunks :
              i # j => rres.chunks[i].id # rres.chunks[j].id
        /\ Len(rres.rerank_scores) = Len(rres.chunks)
        /\ Len(rres.rerank_reasons) = Len(rres.chunks)

(***************************************************************************)
(* Intent classification (services/rag/intent.py).  A query is a sequence  *)
(* of words separated by single blanks; a keyword is the sequence of its   *)
(* words, so that a phrase spans several words of the query.               *)
(***************************************************************************)
\* longest query, in words
MaxWords == 3

Vocabulary ==
    {"policy", "Policy", "style", "guide", "error", "fix", "deploy", "hello"}

\* str.lower
lower(w) == IF w = "Policy" THEN "policy" ELSE w

\* the non-general intents in the order INTENT_KEYWORDS declares them
IntentOrder == <<"standards_policy", "implementation_debug", "process">>

INTENT_KEYWORDS ==
    [standards_policy |-> {<<"policy">>, <<"style">>, <<"style", "guide">>},
     implementation_debug |-> {<<"error">>, <<"fix">>},
     process |-> {<<"deploy">>}]

\* the orders in which iterating a set of strings can yield its members
Orders(S) ==
    {o \in [1..Cardinality(S) -> S] :
        \A i, j \in 1..Cardinality(S) : i # j => o[i] # o[j]}

MatchesAt(q, p, kw) ==
    /\ p + Len(kw) - 1 <= Len(q)
    /\ SubSeq(q, p, p + Len(kw) - 1) = kw

\* (mutation) pattern.search in place of pattern.finditer: the first match
\* only
finditer_FirstOnly(q, p, pattern) ==
    LET starts == {i \in p..Len(q) :
                      \E k \in DOMAIN pattern : MatchesAt(q, i, pattern[k])}
    IN IF starts = {} THEN {}
       ELSE LET i == CHOOSE x \in starts : \A y \in starts : x <= y
                alts == {k \in DOMAIN pattern : MatchesAt(q, i, pattern[k])}
            IN {pattern[CHOOSE k \in alts : \A l \in alts : k <= l]}

\* pattern.finditer: leftmost, non-overlapping; at a position the first
\* alternative of the pattern that matches is the match
RECURSIVE finditer(_, _, _)
finditer(q, p, pattern) ==
    IF p > Len(q) THEN {}
    ELSE LET alts == {k \in DOMAIN pattern : MatchesAt(q, p, pattern[k])} IN
         IF alts = {} THEN finditer(q, p + 1, pattern)
         ELSE LET kw == pattern[CHOOSE k \in alts : \A l \in alts : k <= l]
              IN {kw} \cup finditer(q, p + Len(kw), pattern)

\* (mutation) the selection loop compares with >= instead of >
RECURSIVE SelectBest_LastWins(_, _, _, _)
SelectBest_LastWins(intent_matches, i, best_intent, best_count) ==
    IF i > Len(IntentOrder) THEN best_intent
    ELSE LET n == Cardinality(intent_matches[IntentOrder[i]]) IN
         IF n >= best_count
         THEN SelectBest_LastWins(intent_matches, i + 1, IntentOrder[i], n)
         ELSE SelectBest_LastWins(intent_matches, i + 1, best_intent,
                                  best_count)

\* the loop "for intent, matches in intent_matches.items()"
RECURSIVE SelectBest(_, _, _, _)
SelectBest(intent_matches, i, best_intent, best_count) ==
    IF i > Len(IntentOrder) THEN best_intent
    ELSE LET n == Cardinality(intent_matches[IntentOrder[i]]) IN
         IF n > best_count
         THEN SelectBest(intent_matches, i + 1, IntentOrder[i], n)
         ELSE SelectBest(intent_matches, i + 1, best_intent, best_count)

classify(query) ==
    LET query_lower == [i \in DOMAIN query |-> lower(query[i])]
        query_words == Len(query)
        intent_matches ==
            [it \in {IntentOrder[i] : i \in DOMAIN IntentOrder} |->
                finditer(query_lower, 1, patterns[it])]
        best_intent == SelectBest(intent_matches, 1, "general", 0)
        best_matches ==
            IF best_intent = "general" THEN {} ELSE intent_matches[best_intent]
        best_count == Cardinality(best_matches)
        \* max(1, query_words / 3), in thirds
        denom == IF query_words > 3 THEN query_words ELSE 3
        confidence ==
            IF best_count = 0 THEN Frac(0, 1)
            ELSE IF 3 * best_count >= denom THEN Frac(1, 1)
            ELSE Frac(3 * best_count, denom)
    IN [done |-> TRUE, query |-> query, intent |-> best_intent,
        confidence |-> confidence, matched_keywords |-> best_matches,
        scope_weights |-> INTENT_SCOPE_WEIGHTS[best_intent],
        counts |-> [it \in DOMAIN intent_matches |->
                       Cardinality(intent_matches[it])]]

AddWord(w) ==
    /\ ~ cls.done
    /\ Len(cls.query) < MaxWords
    /\ cls' = [cls EXCEPT !.query = Append(cls.query, w)]
    /\ UNCHANGED <<idxVars, retVars, rerVars, patterns, libVars>>

Classify ==
    /\ ~ cls.done
    /\ cls' = classify(cls.query)
    /\ UNCHANGED <<idxVars, retVars, rerVars, patterns, libVars>>

\* IntentClassifier.__init__ has run: each pattern joins the intent's
\* keyword set in the order the set iterates
InitIntent ==
    /\ IndexIdle
    /\ hits = <<>>
    /\ ret = [done |-> FALSE]
    /\ env = [ENABLE_RERANK |-> TRUE, ENABLE_DIVERSITY |-> TRUE,
              cohere_api_key |-> FALSE, openai_client |-> FALSE]
    /\ rk = [pc |-> "input", candidates |-> <<>>, top_k |-> 0,
             calls |-> <<>>]
    /\ rres = [done |-> FALSE]
    /\ patterns \in [standards_policy : Orders(INTENT_KEYWORDS.standards_policy),
                     implementation_debug :
                         Orders(INTENT_KEYWORDS.implementation_debug),
                     process : Orders(INTENT_KEYWORDS.process)]
    /\ cls = [done |-> FALSE, query |-> <<>>]
    /\ LibIdle

NextIntent ==
    \/ \E w \in Vocabulary : AddWord(w)
    \/ Classify

SpecIntent == InitIntent /\ [][NextIntent]_vars

(***************************************************************************)
(* Intent claims.                                                          *)
(***************************************************************************)
NonGeneral == {IntentOrder[i] : i \in DOMAIN IntentOrder}
Position(it) == CHOOSE i \in DOMAIN IntentOrder : IntentOrder[i] = it
TopCount == SeqMax([i \in DOMAIN IntentOrder |-> cls.counts[IntentOrder[i]]])
Leaders == {it \in NonGeneral : cls.counts[it] = TopCount}

\* C10 (as claimed): a non-general intent is returned only if its count of
\* distinct matched keywords is strictly greater than every other
\* intent's; a tie for the highest count, and no match at all, give
\* general.
C10_TieGivesGeneral ==
    cls.done =>
        /\ cls.intent # "general" =>
              \A it \in NonGeneral \ {cls.intent} :
                  cls.counts[it] < cls.counts[cls.intent]
        /\ (TopCount = 0 \/ Cardinality(Leaders) >= 2) =>
              cls.intent = "general"

\* C10 (amended): a non-general intent is returned only if its count is at
\* least 1, at least every other intent's and strictly greater than that
\* of every intent declared before it; among intents that tie for the
\* highest non-zero count the first-declared one is returned; general is
\* returned exactly when no keyword matches.
C10_FirstDeclaredWins ==
    cls.done =>
        /\ cls.intent # "general" =>
              /\ cls.counts[cls.intent] >= 1
              /\ \A it \in NonGeneral :
                    /\ cls.counts[it] <= cls.counts[cls.intent]
                    /\ Position(it) < Position(cls.intent) =>
                          cls.counts[it] < cls.counts[cls.intent]
        /\ TopCount >= 1 =>
              /\ cls.intent \in Leaders
              /\ \A it \in Leaders : Position(cls.intent) <= Position(it)
        /\ cls.intent = "general" <=> TopCount = 0

\* implementation_debug and process tie with one keyword each and
\* standards_policy has none: implementation_debug is returned
C10_Witness ==
    /\ cls.done
    /\ cls.counts.standards_policy = 0
    /\ cls.counts.implementation_debug = 1
    /\ cls.counts.process = 1
    /\ cls.intent = "implementation_debug"

\* the keywords of an intent that occur in the lower-cased query
Occurring(it) ==
    LET q == [i \in DOMAIN cls.query |-> lower(cls.query[i])] IN
    {kw \in INTENT_KEYWORDS[it] : \E p \in DOMAIN q : MatchesAt(q, p, kw)}

WordsOf(kw) == {kw[i] : i \in DOMAIN kw}

\* C11: a query whose matched keywords all belong to one intent is
\* classified as that intent with confidence > 0 and matched_keywords the
\* distinct keywords found (each is a keyword of the intent occurring in
\* the query, and a keyword occurring in the query is left out only where
\* it overlaps a matched one); a query with no keyword is general with
\* confidence 0 and an empty matched set; scope_weights is the fixed table
\* of the returned intent, where standards_policy and process weight
\* notion above code and diff, implementation_debug weights code and diff
\* above notion, and general weights every source type 1.0.
C11_ClassifyResult ==
    cls.done =>
        /\ \A it \in NonGeneral :
              (cls.counts[it] >= 1
                 /\ \A o \in NonGeneral \ {it} : cls.counts[o] = 0) =>
                /\ cls.intent = it
                /\ cls.confidence.n > 0 /\ cls.confidence.d > 0
                /\ cls.confidence.n <= cls.confidence.d
                /\ Cardinality(cls.matched_keywords) = cls.counts[it]
                /\ cls.matched_keywords \subseteq Occurring(it)
                /\ \A kw \in Occurring(it) :
                      \/ kw \in cls.matched_keywords
                      \/ \E m \in cls.matched_keywords :
                            WordsOf(m) \cap WordsOf(kw) # {}
        /\ (\A it \in NonGeneral : Occurring(it) = {}) =>
              /\ cls.intent = "general"
              /\ cls.confidence.n = 0
              /\ cls.matched_keywords = {}
        /\ cls.scope_weights = INTENT_SCOPE_WEIGHTS[cls.intent]
        /\ \A it \in {"standards_policy", "process"} :
              /\ INTENT_SCOPE_WEIGHTS[it].notion > INTENT_SCOPE_WEIGHTS[it].code
              /\ INTENT_SCOPE_WEIGHTS[it].notion > INTENT_SCOPE_WEIGHTS[it].diff
        /\ INTENT_SCOPE_WEIGHTS.implementation_debug.code
              > INTENT_SCOPE_WEIGHTS.implementation_debug.notion
        /\ INTENT_SCOPE_WEIGHTS.implementation_debug.diff
              > INTENT_SCOPE_WEIGHTS.implementation_debug.notion
        /\ \A st \in DOMAIN INTENT_SCOPE_WEIGHTS.general :
              INTENT_SCOPE_WEIGHTS.general[st] = 10

\* two distinct keywords of standards_policy, one written with a capital,
\* and no keyword of another intent
C11_Witness ==
    /\ cls.done
    /\ cls.intent = "standards_policy"
    /\ cls.counts.standards_policy = 2
    /\ cls.counts.implementation_debug = 0 /\ cls.counts.process = 0
    /\ \E i \in DOMAIN cls.query : cls.query[i] = "Policy"
    /\ <<"policy">> \in cls.matched_keywords

(***************************************************************************)
(* Batch embedding (services/rag/embeddings.py).                           *)
(***************************************************************************)
\* longest list of texts, largest batch size
MaxTexts == 3
MaxBatch == 2

EmbedTexts == {"a", "b"}

\* the vector the provider computes for a text
EmbeddingOf == [a |-> "va", b |-> "vb"]

\* the hashes a lookup can report; the last one belongs to no text
HashUniverse ==
    {compute_content_hash("a"), compute_content_hash("b"),
     compute_content_hash("z")}

Perms(n) ==
    {o \in [1..n -> 1..n] : \A i, j \in 1..n : i # j => o[i] # o[j]}

RECURSIVE InsertByIndex(_, _)
InsertByIndex(d, sorted) ==
    IF sorted = <<>> THEN <<d>>
    ELSE IF d.index < sorted[1].index THEN <<d>> \o sorted
    ELSE <<sorted[1]>> \o InsertByIndex(d, Tail(sorted))

\* (mutation) the response items are taken in the order they arrive
SortByIndex_AsReturned(data) == data

\* sorted(response.data, key=lambda x: x.index)
RECURSIVE SortByIndex(_)
SortByIndex(data) ==
    IF data = <<>> THEN <<>>
    ELSE InsertByIndex(data[Len(data)],
                       SortByIndex(SubSeq(data, 1, Len(data) - 1)))

\* texts[i:i + batch_size], i counted from 0
Batch(texts, i, batch_size) ==
    SubSeq(texts, i + 1,
           IF i + batch_size < Len(texts) THEN i + batch_size ELSE Len(texts))

\* the positions (from 0) whose hash is, or is not, in existing_hashes
RECURSIVE Separate(_, _, _, _)
Separate(content_hashes, existing_hashes, i, want) ==
    IF i >= Len(content_hashes) THEN <<>>
    ELSE (IF (content_hashes[i + 1] \in existing_hashes) = want
          THEN <<i>> ELSE <<>>)
         \o Separate(content_hashes, existing_hashes, i + 1, want)

\* (mutation) the new embeddings fill the first positions of the result
Scatter_Compact(n, text_indices, new_embeddings) ==
    [p \in 1..n |->
        IF p <= Len(text_indices) /\ p <= Len(new_embeddings)
        THEN new_embeddings[p] ELSE NULL]

\* embeddings = [None] * n; embeddings[orig_idx] = embedding over the zip
Scatter(n, text_indices, new_embeddings) ==
    [p \in 1..n |->
        IF \E j \in DOMAIN text_indices :
              text_indices[j] = p - 1 /\ j <= Len(new_embeddings)
        THEN new_embeddings[CHOOSE j \in DOMAIN text_indices :
                               text_indices[j] = p - 1]
        ELSE NULL]

EmbedInput ==
    [pc |-> "input", op |-> "none", texts |-> <<>>, batch_size |-> 1,
     content_hashes |-> <<>>, existing_hashes |-> {}, text_indices |-> <<>>,
     skipped_indices |-> <<>>, texts_to_embed |-> <<>>, i |-> 0,
     all_embeddings |-> <<>>, calls |-> <<>>, raised |-> FALSE,
     embeddings |-> <<>>, stats |-> [total |-> 0, skipped |-> 0,
                                     embedded |-> 0, batch_count |-> 0]]

\* the value embed_batch returns reaches its caller
EmbedReturn(e, all_embeddings) ==
    IF e.op = "embed_batch"
    THEN [e EXCEPT !.pc = "done", !.all_embeddings = all_embeddings,
                   !.embeddings = all_embeddings]
    ELSE [e EXCEPT !.pc = "done", !.all_embeddings = all_embeddings,
                   !.embeddings =
                       Scatter(Len(e.texts), e.text_indices, all_embeddings),
                   !.stats =
                       [total |-> Len(e.texts),
                        skipped |-> Len(e.skipped_indices),
                        embedded |-> Len(e.texts_to_embed),
                        batch_count |->
                            IF e.texts_to_embed = <<>> THEN 0
                            ELSE (Len(e.texts_to_embed) + e.batch_size - 1)
                                    \div e.batch_size]]

\* embed_batch up to its first provider call
EnterEmbedBatch(e) ==
    IF e.texts_to_embed = <<>> THEN EmbedReturn(e, <<>>)
    ELSE [e EXCEPT !.pc = "batch", !.i = 0]

EmbAddText(t) ==
    /\ emb.pc = "input"
    /\ Len(emb.texts) < MaxTexts
    /\ emb' = [emb EXCEPT !.texts = Append(emb.texts, t)]
    /\ UNCHANGED <<idxVars, retVars, rerVars, intVars, disc, lm, pri, prb>>

EmbedBatchStart(batch_size) ==
    /\ emb.pc = "input"
    /\ emb' = EnterEmbedBatch([emb EXCEPT !.op = "embed_batch",
                                          !.batch_size = batch_size,
                                          !.texts_to_embed = emb.texts])
    /\ UNCHANGED <<idxVars, retVars, rerVars, intVars, disc, lm, pri, prb>>

\* source: check_existing_fn, the Supabase lookup (which answers with
\* stored hashes among those asked for, or nothing on an error), or neither
\* content_hashes is None (computed from the texts) or a list made by the
\* caller, one hash per text
EmbedWithSkipStart(batch_size, precomputed, source, reported) ==
    /\ emb.pc = "input"
    /\ LET content_hashes ==
               IF precomputed = <<>>
               THEN [i \in DOMAIN emb.texts |->
                        compute_content_hash(emb.texts[i])]
               ELSE [i \in DOMAIN emb.texts |-> precomputed[1]]
           existing_hashes ==
               IF emb.texts = <<>> \/ source = "none" THEN {}
               ELSE IF source = "fn" THEN reported
               ELSE reported \cap {content_hashes[i] :
                                      i \in DOMAIN content_hashes}
           text_indices == Separate(content_hashes, existing_hashes, 0, FALSE)
           e == [emb EXCEPT
                   !.op = "embed_with_skip",
                   !.batch_size = batch_size,
                   !.content_hashes = content_hashes,
                   !.existing_hashes = existing_hashes,
                   !.text_indices = text_indices,
                   !.skipped_indices =
                       Separate(content_hashes, existing_hashes, 0, TRUE),
                   !.texts_to_embed =
                       [j \in DOMAIN text_indices |->
                           emb.texts[text_indices[j] + 1]]]
       IN emb' = EnterEmbedBatch(e)
    /\ UNCHANGED <<idxVars, retVars, rerVars, intVars, disc, lm, pri, prb>>

\* embeddings.create answers the current batch, its items in any order
ProviderAnswers(order) ==
    /\ emb.pc = "batch"
    /\ LET batch == Batch(emb.texts_to_embed, emb.i, emb.batch_size)
           data == [j \in DOMAIN order |->
                       [index |-> order[j] - 1,
                        embedding |-> EmbeddingOf[batch[order[j]]]]]
           sorted_data == SortByIndex(data)
           all_embeddings ==
               emb.all_embeddings
                 \o [j \in DOMAIN sorted_data |-> sorted_data[j].embedding]
           e == [emb EXCEPT
                   !.calls = Append(emb.calls,
                                    [input |-> batch, order |-> order]),
                   !.i = emb.i + emb.batch_size,
                   !.all_embeddings = all_embeddings]
       IN /\ order \in Perms(Len(batch))
          /\ emb' = IF e.i >= Len(e.texts_to_embed)
                    THEN EmbedReturn(e, all_embeddings) ELSE e
    /\ UNCHANGED <<idxVars, retVars, rerVars, intVars, disc, lm, pri, prb>>

\* embeddings.create raises: nothing catches it
ProviderFails ==
    /\ emb.pc = "batch"
    /\ emb' = [emb EXCEPT
                 !.pc = "done", !.raised = TRUE,
                 !.calls = Append(emb.calls,
                     [input |-> Batch(emb.texts_to_embed, emb.i,
                                      emb.batch_size),
                      order |-> <<>>])]
    /\ UNCHANGED <<idxVars, retVars, rerVars, intVars, disc, lm, pri, prb>>

\* no precomputed hashes, or one and the same hash for every text
Precomputed == {<<>>} \cup {<<h>> : h \in HashUniverse}

\* nothing indexed, retrieved, reranked or classified
ServiceIdle ==
    /\ IndexIdle
    /\ hits = <<>>
    /\ ret = [done |-> FALSE]
    /\ env = [ENABLE_RERANK |-> TRUE, ENABLE_DIVERSITY |-> TRUE,
              cohere_api_key |-> FALSE, openai_client |-> FALSE]
    /\ rk = [pc |-> "input", candidates |-> <<>>, top_k |-> 0,
             calls |-> <<>>]
    /\ rres = [done |-> FALSE]
    /\ patterns = <<>>
    /\ cls = [done |-> FALSE, query |-> <<>>]

InitEmbed ==
    /\ ServiceIdle
    /\ emb = EmbedInput
    /\ disc = [pc |-> "idle"]
    /\ lm = [pc |-> "idle"]
    /\ pri = [pc |-> "idle"]
    /\ prb = [pc |-> "idle"]

NextEmbed ==
    \/ \E t \in EmbedTexts : EmbAddText(t)
    \/ \E b \in 1..MaxBatch : EmbedBatchStart(b)
    \/ \E b \in 1..MaxBatch, h \in Precomputed,
          source \in {"fn", "supabase", "none"},
          reported \in SUBSET HashUniverse :
             EmbedWithSkipStart(b, h, source, reported)
    \/ \E n \in 1..MaxBatch : \E order \in Perms(n) : ProviderAnswers(order)
    \/ ProviderFails

SpecEmbed == InitEmbed /\ [][NextEmbed]_vars

(***************************************************************************)
(* Embedding claims.                                                       *)
(***************************************************************************)
RECURSIVE CallInputs(_)
CallInputs(calls) ==
    IF calls = <<>> THEN <<>>
    ELSE calls[1].input \o CallInputs(Tail(calls))

\* C12: for n texts and batch size b >= 1, embed_batch issues exactly
\* ceil(n/b) provider calls (none for an empty list), each carrying at most
\* b consecutive texts, and returns n vectors of which the i-th is the
\* embedding of the i-th text, whatever order the provider returns the
\* items of a batch in.
C12_EmbedBatch ==
    emb.op = "embed_batch" =>
        LET n == Len(emb.texts)
            b == emb.batch_size
            sent == CallInputs(emb.calls)
        IN /\ \A c \in DOMAIN emb.calls :
                 /\ Len(emb.calls[c].input) >= 1
                 /\ Len(emb.calls[c].input) <= b
           /\ Len(sent) <= n
           /\ sent = SubSeq(emb.texts, 1, Len(sent))
           /\ (emb.pc = "done" /\ ~ emb.raised) =>
                 /\ Len(emb.calls) * b >= n
                 /\ n > 0 => (Len(emb.calls) - 1) * b < n
                 /\ n = 0 => emb.calls = <<>>
                 /\ Len(emb.embeddings) = n
                 /\ \A i \in 1..n :
                       emb.embeddings[i] = EmbeddingOf[emb.texts[i]]

\* three texts in two calls, the first batch of two different texts
\* answered in reverse order
C12_Witness ==
    /\ emb.op = "embed_batch" /\ emb.pc = "done" /\ ~ emb.raised
    /\ Len(emb.texts) = 3 /\ emb.batch_size = 2
    /\ Len(emb.calls) = 2
    /\ emb.calls[1].order = <<2, 1>>
    /\ emb.texts[1] # emb.texts[2]

Listed(indices) == {indices[j] : j \in DOMAIN indices}

MaxFilesCap == 3

\* DiscoveryConfig.default().ignore_globs of the form D/**, as tokens
IgnoreGlobs ==
    << <<"node_modules", "/", "**">>, <<"dist", "/", "**">>,
       <<"build", "/", "**">> >>

\* the directories those globs name
IgnoredDirNames == {IgnoreGlobs[g][1] : g \in DOMAIN IgnoreGlobs}

\* include_roots: the default kind (directories, top-level files, one
\* directory that does not exist) and one that also names build/
IncludeRootsChoices ==
    { << <<"apps", "/">>, <<"docs", "/">>, <<"README.md">>, <<"CLAUDE.md">> >>,
      << <<"apps", "/">>, <<"build", "/">>, <<"README.md">> >> }

\* the repository tree: what os.walk lists in a directory
ListDir(d) ==
    CASE d = <<"apps">> ->
           [dirnames |-> <<"node_modules", "web", ".cache">>,
            filenames |-> <<"main.py", "logo.png", "test_main.py">>]
      [] d = <<"apps", "node_modules">> ->
           [dirnames |-> <<>>, filenames |-> <<"index.js">>]
      [] d = <<"apps", "web">> ->
           [dirnames |-> <<"dist", "tests">>,
            filenames |-> <<"app.ts", "latest.py">>]
      [] d = <<"apps", "web", "tests">> ->
           [dirnames |-> <<>>, filenames |-> <<"helper.py">>]
      [] d = <<"apps", "web", "dist">> ->
           [dirnames |-> <<>>, filenames |-> <<"bundle.js">>]
      [] d = <<"apps", ".cache">> ->
           [dirnames |-> <<>>, filenames |-> <<"x.py">>]
      [] d = <<"build">> ->
           [dirnames |-> <<"lib">>, filenames |-> <<"gen.py">>]
      [] d = <<"build", "lib">> ->
           [dirnames |-> <<>>, filenames |-> <<"y.py">>]
      [] OTHER -> [dirnames |-> <<>>, filenames |-> <<>>]

AllDirs ==
    {<<"apps">>, <<"apps", "node_modules">>, <<"apps", "web">>,
     <<"apps", "web", "dist">>, <<"apps", "web", "tests">>,
     <<"apps", ".cache">>, <<"build">>, <<"build", "lib">>}

FileNames ==
    {"README.md", "CLAUDE.md", "main.py", "logo.png", "test_main.py",
     "index.js", "app.ts", "bundle.js", "x.py", "gen.py", "y.py",
     "latest.py", "helper.py"}

\* what a file is on disk: absent, or present and small text ("ok"),
\* larger than max_file_bytes ("large"), with a null byte in its first
\* 8KB ("binary")
FileSystems ==
    {[n \in FileNames |->
         CASE n = "README.md" -> readme
           [] n = "CLAUDE.md" -> claude
           [] n = "main.py" -> main
           [] n = "app.ts" -> app
           [] OTHER -> "ok"] :
        readme \in {"absent", "ok", "large", "binary"},
        claude \in {"absent", "ok"},
        main \in {"ok", "large", "binary"},
        app \in {"absent", "ok"}}

RECURSIVE PathStr(_)
PathStr(path) ==
    IF Len(path) <= 1 THEN path
    ELSE <<path[1], "/">> \o PathStr(Tail(path))

\* str.replace over the tokens of a pattern
RECURSIVE Replace(_, _, _)
Replace(tokens, old, new) ==
    IF tokens = <<>> THEN <<>>
    ELSE (IF tokens[1] = old THEN new ELSE <<tokens[1]>>)
         \o Replace(Tail(tokens), old, new)

\* glob.replace('**', '.*').replace('*', '[^/]*'): the second replace also
\* rewrites the * the first one wrote
GlobPattern(glob) ==
    Replace(Replace(glob, "**", <<".", "*">>), "*", <<"[^/]*">>)

\* re.match('^' + pattern + '$', s): "." is any one character, "[^/]*" any
\* run without a slash, every other token stands for itself; a component
\* has two characters or more
RECURSIVE re_match(_, _)
re_match(pattern, str) ==
    IF pattern = <<>> THEN str = <<>>
    ELSE LET a == pattern[1]
             rest == Tail(pattern)
         IN CASE a = "[^/]*" ->
                   \/ re_match(rest, str)
                   \/ /\ str # <<>>
                      /\ str[1] # "/"
                      /\ re_match(rest, Tail(str))
              [] a = "." ->
                   /\ str # <<>>
                   /\ IF str[1] = "/" THEN re_match(rest, Tail(str))
                      ELSE /\ rest # <<>>
                           /\ rest[1] = "[^/]*"
                           /\ re_match(Tail(rest), Tail(str))
              [] OTHER ->
                   /\ str # <<>>
                   /\ str[1] = a
                   /\ re_match(rest, Tail(str))

matches_glob(path_str, glob) == re_match(GlobPattern(glob), path_str)

DotNames == {".cache", ".github"}

is_hidden_directory(name) == name \in DotNames /\ name # ".github"

should_ignore_directory(name, relative_path, config) ==
    \/ is_hidden_directory(name)
    \/ \E g \in DOMAIN config.ignore_globs :
          \/ matches_glob(PathStr(relative_path) \o <<"/">>,
                          config.ignore_globs[g])
          \/ matches_glob(PathStr(relative_path), config.ignore_globs[g])

should_ignore_file(relative_path, config) ==
    \E g \in DOMAIN config.ignore_globs :
        matches_glob(PathStr(relative_path), config.ignore_globs[g])

\* Path.suffix.lower() of the file names of the tree
suffix(name) ==
    CASE name \in {"README.md", "CLAUDE.md"} -> ".md"
      [] name \in {"main.py", "test_main.py", "x.py", "gen.py", "y.py",
                   "latest.py", "helper.py"} -> ".py"
      [] name \in {"index.js", "bundle.js"} -> ".js"
      [] name = "app.ts" -> ".ts"
      [] name = "logo.png" -> ".png"
      [] OTHER -> ""

supported_extensions == {".py", ".js", ".ts", ".md"}

is_supported_extension(path) == suffix(path[Len(path)]) \in supported_extensions

\* where the repository is checked out: Path(repo_root).parts
RepoRoots == {<<"/", "srv", "repo">>, <<"/", "home", "test-repo">>}

\* the path components of the model with "test" in their lower case, the
\* file names that start with "test_", the ones that end with "_test.py"
\* (no name of the model ends with ".test.")
ContainsTest == {"test_main.py", "tests", "latest.py", "test-repo"}
TestPrefixNames == {"test_main.py"}
TestSuffixNames == {}

\* is_test_file(file_path): file_path is Path(dirpath) / filename, the
\* parts of the repository root first
is_test_file(file_path) ==
    \/ \E i \in DOMAIN file_path : file_path[i] \in ContainsTest
    \/ file_path[Len(file_path)] \in TestPrefixNames
    \/ file_path[Len(file_path)] \in TestSuffixNames

FileDiscoveryStats ==
    [dirs_visited |-> 0, files_seen |-> 0, files_included |-> 0,
     skipped_counts |->
        [ignored_dir_pruned |-> 0, ignored_path |-> 0, unsupported_ext |-> 0,
         too_large |-> 0, binary |-> 0, cap_reached |-> 0,
         outside_include_roots |-> 0]]

\* (mutation) the skip is not counted
add_skip_Lost(stats, reason) == stats

add_skip(stats, reason) ==
    [stats EXCEPT !.skipped_counts[reason] = @ + 1]

\* the checks of the walk on one file, in their order: the skip reason, or
\* "none" for a file that passes
FileCheck(path, fs, config, repo_root) ==
    IF should_ignore_file(path, config) THEN "ignore_glob"
    ELSE IF ~ is_supported_extension(path) THEN "unsupported_ext"
    ELSE IF ~ config.include_tests /\ is_test_file(repo_root \o path)
    THEN "test_file"
    ELSE IF fs[path[Len(path)]] = "large" THEN "too_large"
    ELSE IF fs[path[Len(path)]] = "binary" THEN "binary"
    ELSE "none"

\* the skip reason the check is counted under
FileVerdict(path, fs, config, repo_root) ==
    LET check == FileCheck(path, fs, config, repo_root) IN
    IF check \in {"ignore_glob", "test_file"} THEN "ignored_path" ELSE check

\* (mutation) the cap is tested with > instead of >=
CapReached_Late(stats, config) == stats.files_included > config.max_files

CapReached(stats, config) == stats.files_included >= config.max_files

\* the single-file include roots, admitted as they are
RECURSIVE SingleFileRoots(_, _)
SingleFileRoots(include_roots, fs) ==
    IF include_roots = <<>> THEN <<>>
    ELSE (IF include_roots[1][Len(include_roots[1])] # "/"
             /\ fs[include_roots[1][1]] # "absent"
          THEN <<include_roots[1]>> ELSE <<>>)
         \o SingleFileRoots(Tail(include_roots), fs)

\* [root.rstrip('/') for root in include_roots if root.endswith('/')]
RECURSIVE IncludeDirs(_)
IncludeDirs(include_roots) ==
    IF include_roots = <<>> THEN <<>>
    ELSE (IF include_roots[1][Len(include_roots[1])] = "/"
          THEN <<SubSeq(include_roots[1], 1, Len(include_roots[1]) - 1)>>
          ELSE <<>>)
         \o IncludeDirs(Tail(include_roots))

DiscoverStart ==
    /\ disc.pc = "start"
    /\ LET single == SingleFileRoots(disc.config.include_roots, disc.fs) IN
       disc' = [disc EXCEPT
                  !.pc = "walk",
                  !.files_to_process = single,
                  !.stats.files_included = Len(single),
                  !.stats.files_seen = Len(single),
                  !.roots = IncludeDirs(disc.config.include_roots)]
    /\ UNCHANGED <<idxVars, retVars, rerVars, intVars, emb, lm, pri, prb>>

\* for root_dir in include_dirs: a root that is no directory is passed over
NextRoot ==
    /\ disc.pc = "walk"
    /\ disc.stack = <<>>
    /\ disc.roots # <<>>
    /\ disc' = [disc EXCEPT
                  !.roots = Tail(disc.roots),
                  !.stack = IF disc.roots[1] \in AllDirs
                            THEN <<disc.roots[1]>> ELSE <<>>]
    /\ UNCHANGED <<idxVars, retVars, rerVars, intVars, emb, lm, pri, prb>>

\* os.walk yields the next directory: its subdirectories are pruned in
\* place, the ones left are walked after its files
WalkDir ==
    /\ disc.pc = "walk"
    /\ disc.stack # <<>>
    /\ LET dirpath == disc.stack[1]
           listing == ListDir(dirpath)
           Ignored(dirname) ==
               should_ignore_directory(dirname, Append(dirpath, dirname),
                                       disc.config)
           Kept(dirname) == ~ Ignored(dirname)
           Present(filename) == disc.fs[filename] # "absent"
           dirnames == SelectSeq(listing.dirnames, Kept)
           filenames == SelectSeq(listing.filenames, Present)
       IN disc' = [disc EXCEPT
                     !.pc = IF filenames = <<>> THEN "walk" ELSE "files",
                     !.dirpath = dirpath,
                     !.filenames = filenames,
                     !.stack = [i \in DOMAIN dirnames |->
                                   Append(dirpath, dirnames[i])]
                               \o Tail(disc.stack),
                     !.visited = Append(disc.visited, dirpath),
                     !.stats.dirs_visited = @ + 1,
                     !.stats.skipped_counts.ignored_dir_pruned =
                         @ + Len(SelectSeq(listing.dirnames, Ignored))]
    /\ UNCHANGED <<idxVars, retVars, rerVars, intVars, emb, lm, pri, prb>>

\* one turn of "for filename in filenames"
ExamineFile ==
    /\ disc.pc = "files"
    /\ LET file_path == Append(disc.dirpath, disc.filenames[1])
           verdict == FileVerdict(file_path, disc.fs, disc.config, disc.repo_root)
           left == Tail(disc.filenames)
       IN IF CapReached(disc.stats, disc.config)
          THEN disc' = [disc EXCEPT
                          !.pc = "done", !.early = TRUE,
                          !.stats = add_skip(disc.stats, "cap_reached")]
          ELSE disc' = [disc EXCEPT
                          !.pc = IF left = <<>> THEN "walk" ELSE "files",
                          !.filenames = left,
                          !.examined =
                              Append(disc.examined,
                                     [path |-> file_path,
                                      check |-> FileCheck(file_path, disc.fs,
                                                          disc.config,
                                                          disc.repo_root),
                                      included |-> disc.stats.files_included]),
                          !.files_to_process =
                              IF verdict = "none"
                              THEN Append(disc.files_to_process, file_path)
                              ELSE disc.files_to_process,
                          !.stats =
                              IF verdict = "none"
                              THEN [disc.stats EXCEPT
                                      !.files_seen = @ + 1,
                                      !.files_included = @ + 1]
                              ELSE add_skip([disc.stats EXCEPT
                                               !.files_seen = @ + 1],
                                            verdict)]
    /\ UNCHANGED <<idxVars, retVars, rerVars, intVars, emb, lm, pri, prb>>

\* every include root walked: return files_to_process, stats
WalkDone ==
    /\ disc.pc = "walk"
    /\ disc.stack = <<>>
    /\ disc.roots = <<>>
    /\ disc' = [disc EXCEPT !.pc = "done"]
    /\ UNCHANGED <<idxVars, retVars, rerVars, intVars, emb, lm, pri, prb>>

InitDiscover ==
    /\ ServiceIdle
    /\ emb = [pc |-> "idle"]
    /\ lm = [pc |-> "idle"]
    /\ pri = [pc |-> "idle"]
    /\ prb = [pc |-> "idle"]
    /\ \E fs \in FileSystems, roots \in IncludeRootsChoices,
          max_files \in 1..MaxFilesCap, include_tests \in BOOLEAN,
          repo_root \in RepoRoots :
          disc = [pc |-> "start", fs |-> fs, repo_root |-> repo_root,
                  config |-> [include_roots |-> roots,
                              ignore_globs |-> IgnoreGlobs,
                              max_files |-> max_files,
                              include_tests |-> include_tests],
                  roots |-> <<>>, stack |-> <<>>, dirpath |-> <<>>,
                  filenames |-> <<>>, files_to_process |-> <<>>,
                  stats |-> FileDiscoveryStats, early |-> FALSE,
                  examined |-> <<>>, visited |-> <<>>]

NextDiscover ==
    \/ DiscoverStart
    \/ NextRoot
    \/ WalkDir
    \/ ExamineFile
    \/ WalkDone

SpecDiscover == InitDiscover /\ [][NextDiscover]_vars

(***************************************************************************)
(* Discovery claims.                                                       *)
(***************************************************************************)
\* the directories a file lies beneath
DirsAbove(path) == {path[i] : i \in 1..(Len(path) - 1)}

\* C14: a directory named by an ignore glob D/** is pruned wherever the
\* walk meets it, at the top of an include root or deeper, and no file
\* beneath such a directory is returned, whatever its extension.
C14_IgnoredDirsPruned ==
    /\ \A i \in DOMAIN disc.files_to_process :
          DirsAbove(disc.files_to_process[i]) \cap IgnoredDirNames = {}
    /\ \A i \in DOMAIN disc.visited :
          Len(disc.visited[i]) >= 2 =>
             disc.visited[i][Len(disc.visited[i])] \notin IgnoredDirNames

ExaminedWith(reason) ==
    {i \in DOMAIN disc.examined :
        FileVerdict(disc.examined[i].path, disc.fs, disc.config,
                    disc.repo_root) = reason}

\* C15: every file returned, the single-file include roots among them, has
\* a supported extension, a size within max_file_bytes, no null byte in
\* its first 8KB and a path matching no ignore glob; every file rejected
\* by one of these checks is counted under the matching skip reason.
C15_ReturnedFilesEligible ==
    /\ \A i \in DOMAIN disc.files_to_process :
          LET path == disc.files_to_process[i] IN
          /\ is_supported_extension(path)
          /\ disc.fs[path[Len(path)]] = "ok"
          /\ ~ should_ignore_file(path, disc.config)
    /\ \A reason \in {"ignored_path", "unsupported_ext", "too_large", "binary"} :
          disc.stats.skipped_counts[reason] = Cardinality(ExaminedWith(reason))

\* C16: discover_files returns at most max_files files and
\* stats.files_included never exceeds max_files, the single-file include
\* roots counted.
C16_MaxFilesCap ==
    /\ Len(disc.files_to_process) <= disc.config.max_files
    /\ disc.stats.files_included <= disc.config.max_files

\* C19: cap_reached is recorded, exactly once, if and only if
\* discover_files returned early because files_included had reached
\* max_files while a further file remained to be examined; no file is
\* examined or counted once the cap is reached, and a run that does not
\* return early walks every include root to its end.
C19_CapReachedOnce ==
    /\ disc.stats.skipped_counts.cap_reached \in {0, 1}
    /\ disc.stats.skipped_counts.cap_reached = 1 <=> disc.early
    /\ disc.early =>
          /\ disc.pc = "done"
          /\ disc.stats.files_included >= disc.config.max_files
          /\ disc.filenames # <<>>
    /\ \A i \in DOMAIN disc.examined :
          disc.examined[i].included < disc.config.max_files
    /\ disc.pc # "start" =>
          disc.stats.files_seen
             = Len(disc.examined)
                 + Len(SingleFileRoots(disc.config.include_roots, disc.fs))
    /\ disc.stats.dirs_visited = Len(disc.visited)
    /\ (disc.pc = "done" /\ ~ disc.early) =>
          /\ disc.stack = <<>> /\ disc.roots = <<>> /\ disc.filenames = <<>>
          /\ \A i \in DOMAIN disc.visited :
                \A j \in DOMAIN ListDir(disc.visited[i]).filenames :
                   LET name == ListDir(disc.visited[i]).filenames[j] IN
                   disc.fs[name] # "absent" =>
                      \E e \in DOMAIN disc.examined :
                         disc.examined[e].path = Append(disc.visited[i], name)

\* the cap is met in the second directory of the walk, after files were
\* examined, with a file left
C19_Witness ==
    /\ disc.pc = "done" /\ disc.early
    /\ disc.stats.skipped_counts.cap_reached = 1
    /\ Len(disc.visited) >= 2
    /\ Len(disc.examined) >= 2
    /\ disc.stats.files_included = disc.config.max_files

\* the test files by the rule of the specification: a test_ name, a
\* _test suffix, or a component test or tests below the repository root
SpecTestFile(path) ==
    \/ path[Len(path)] \in TestPrefixNames
    \/ path[Len(path)] \in TestSuffixNames
    \/ \E i \in 1..(Len(path) - 1) : path[i] \in {"test", "tests"}

\* C25: with include_tests false, discover_files excludes a file as a
\* test file exactly when its name starts with test_, its name has the
\* _test suffix, or one of its path components below the repository root
\* is test or tests; where the repository root lies has no influence;
\* with include_tests true no file is excluded by this rule.
C25_TestFileRule ==
    \A e \in DOMAIN disc.examined :
        LET x == disc.examined[e] IN
        x.check \notin {"ignore_glob", "unsupported_ext"} =>
            (x.check = "test_file"
                <=> (~ disc.config.include_tests /\ SpecTestFile(x.path)))

SkipReasons == DOMAIN FileDiscoveryStats.skipped_counts

\* C30: at every return of discover_files, files_included is the number
\* of files returned and files_seen = files_included + ignored_path
\* + unsupported_ext + too_large + binary; no skip counter ever decreases.
StatsConsistent(d) ==
    d.pc = "done" =>
        /\ d.stats.files_included = Len(d.files_to_process)
        /\ d.stats.files_seen
              = d.stats.files_included
                  + d.stats.skipped_counts.ignored_path
                  + d.stats.skipped_counts.unsupported_ext
                  + d.stats.skipped_counts.too_large
                  + d.stats.skipped_counts.binary

C30_StatsConsistent ==
    [][/\ StatsConsistent(disc')
       /\ \A reason \in SkipReasons :
             disc'.stats.skipped_counts[reason]
                >= disc.stats.skipped_counts[reason]]_vars

\* a walk returns with files included and files skipped for two of the
\* per-file reasons
C30_Witness ==
    /\ disc.pc = "done"
    /\ disc.stats.files_included >= 1
    /\ disc.stats.skipped_counts.ignored_path >= 1
    /\ disc.stats.skipped_counts.too_large
          + disc.stats.skipped_counts.binary >= 1

(***************************************************************************)
(* Line spans of chunks (factgap/chunking/splitters.py and optimized.py).  *)
(* A text is the sequence of its characters.                               *)
(***************************************************************************)
\* longest text, most chunks
MaxTextLen == 4
MaxChunksMapped == 2

NL == "\n"
TextChars == {"a", "b", NL}
Whitespace == {NL, " "}

\* str.find(sub, start): the lowest index (from 0) at or after start
\* where sub occurs, -1 if there is none
Find(text, sub, start) ==
    LET at == {i \in start..(Len(text) - Len(sub)) :
                  SubSeq(text, i + 1, i + Len(sub)) = sub}
    IN IF at = {} THEN -1 ELSE CHOOSE i \in at : \A j \in at : i <= j

\* text[:n].count('\n')
CountNewlines(text, n) ==
    Cardinality({i \in 1..n : i <= Len(text) /\ text[i] = NL})

\* not chunk.strip()
IsBlank(chunk) == \A i \in DOMAIN chunk : chunk[i] \in Whitespace

\* re.sub(r'\s+', ' ', text)
RECURSIVE NormalizeWs(_)
NormalizeWs(text) ==
    IF text = <<>> THEN <<>>
    ELSE IF text[1] \in Whitespace
    THEN IF Len(text) >= 2 /\ text[2] \in Whitespace
         THEN NormalizeWs(Tail(text))
         ELSE <<" ">> \o NormalizeWs(Tail(text))
    ELSE <<text[1]>> \o NormalizeWs(Tail(text))

\* cursor = chunk_end
NextCursor(chunk_start, chunk) == chunk_start + Len(chunk)

\* one turn of the loop of chunk_with_line_spans: the result and the cursor
SpanFromCursor(original_text, chunk, cursor) ==
    LET chunk_start == Find(original_text, chunk, cursor)
        chunk_end == chunk_start + Len(chunk)
    IN IF IsBlank(chunk) \/ chunk_start = -1
       THEN [result |-> [chunk |-> chunk, start_line |-> NOLINE,
                         end_line |-> NOLINE],
             cursor |-> cursor]
       ELSE [result |-> [chunk |-> chunk,
                         start_line |->
                             CountNewlines(original_text, chunk_start) + 1,
                         end_line |->
                             CountNewlines(original_text, chunk_end) + 1],
             cursor |-> NextCursor(chunk_start, chunk)]

map_chunk_to_line_spans(original_content, chunk_text, chunk_start_pos) ==
    LET start_line == CountNewlines(original_content, chunk_start_pos) + 1
    IN [chunk |-> chunk_text, start_line |-> start_line,
        end_line |-> start_line + CountNewlines(chunk_text, Len(chunk_text))]

map_chunk_with_fallback(original_content, chunk_text) ==
    LET pos == Find(original_content, chunk_text, 0)
        npos == Find(NormalizeWs(original_content), NormalizeWs(chunk_text), 0)
    IN IF pos # -1
       THEN map_chunk_to_line_spans(original_content, chunk_text, pos)
       ELSE IF npos # -1
       THEN map_chunk_to_line_spans(original_content, chunk_text, npos)
       ELSE [chunk |-> chunk_text, start_line |-> NOLINE,
             end_line |-> NOLINE]

MapInput ==
    [pc |-> "input", mapper |-> "none", text |-> <<>>, spans |-> <<>>,
     cursor |-> 0, k |-> 1, results |-> <<>>]

MapAddChar(c) ==
    /\ lm.pc = "input"
    /\ lm.spans = <<>>
    /\ Len(lm.text) < MaxTextLen
    /\ lm' = [lm EXCEPT !.text = Append(lm.text, c)]
    /\ UNCHANGED <<idxVars, retVars, rerVars, intVars, emb, disc, pri, prb>>

\* the splitter emits its next chunk, the characters first..last of the
\* text: stripped of white space, after the start and the end of the chunk
\* before it, leaving out nothing but white space, and possibly beginning
\* before the end of the chunk before it (chunk_overlap > 0)
MapAddChunk(first, last) ==
    /\ lm.pc = "input"
    /\ Len(lm.spans) < MaxChunksMapped
    /\ 1 <= first /\ first <= last /\ last <= Len(lm.text)
    /\ lm.text[first] \notin Whitespace
    /\ lm.text[last] \notin Whitespace
    /\ LET covered == IF lm.spans = <<>> THEN 0
                      ELSE lm.spans[Len(lm.spans)].last
       IN /\ lm.spans # <<>> =>
                /\ first > lm.spans[Len(lm.spans)].first
                /\ last > covered
          /\ \A i \in (covered + 1)..(first - 1) : lm.text[i] \in Whitespace
    /\ lm' = [lm EXCEPT !.spans = Append(lm.spans,
                                         [first |-> first, last |-> last])]
    /\ UNCHANGED <<idxVars, retVars, rerVars, intVars, emb, disc, pri, prb>>

\* chunk_with_line_spans (the splitters) or LineSpanMapper (the semantic
\* chunker) is given the chunks
MapStart(mapper) ==
    /\ lm.pc = "input"
    /\ lm' = [lm EXCEPT !.mapper = mapper,
                        !.pc = IF lm.spans = <<>> THEN "done" ELSE "map"]
    /\ UNCHANGED <<idxVars, retVars, rerVars, intVars, emb, disc, pri, prb>>

MapChunk ==
    /\ lm.pc = "map"
    /\ LET chunk == SubSeq(lm.text, lm.spans[lm.k].first, lm.spans[lm.k].last)
           step == IF lm.mapper = "chunk_with_line_spans"
                   THEN SpanFromCursor(lm.text, chunk, lm.cursor)
                   ELSE [result |-> map_chunk_with_fallback(lm.text, chunk),
                         cursor |-> lm.cursor]
       IN lm' = [lm EXCEPT
                   !.results = Append(lm.results, step.result),
                   !.cursor = step.cursor,
                   !.k = lm.k + 1,
                   !.pc = IF lm.k = Len(lm.spans) THEN "done" ELSE "map"]
    /\ UNCHANGED <<idxVars, retVars, rerVars, intVars, emb, disc, pri, prb>>

InitMap ==
    /\ ServiceIdle
    /\ emb = [pc |-> "idle"]
    /\ disc = [pc |-> "idle"]
    /\ lm = MapInput
    /\ pri = [pc |-> "idle"]
    /\ prb = [pc |-> "idle"]

NextMap ==
    \/ \E c \in TextChars : MapAddChar(c)
    \/ \E first, last \in 1..MaxTextLen : MapAddChunk(first, last)
    \/ \E mapper \in {"chunk_with_line_spans", "LineSpanMapper"} : MapStart(mapper)
    \/ MapChunk

SpecMap == InitMap /\ [][NextMap]_vars

(***************************************************************************)
(* Line span claim.                                                        *)
(***************************************************************************)
\* C17: for chunks emitted in order by a chunker with a non-zero overlap
\* (each a substring of T, possibly beginning before the end of the chunk
\* before it), the line mapping gives every chunk the 1-based inclusive
\* span of the place it occupies in T: start_line = 1 + the newlines
\* before its first character, end_line = 1 + the newlines before its end.
C17_LineSpans ==
    \A i \in DOMAIN lm.results :
        /\ lm.results[i].start_line
              = 1 + CountNewlines(lm.text, lm.spans[i].first - 1)
        /\ lm.results[i].end_line
              = 1 + CountNewlines(lm.text, lm.spans[i].last)

(***************************************************************************)
(* pr_index_build of the MCP server (factgap/mcp_server/server.py) and the *)
(* table it writes through SupabaseManager (factgap/db/supabase_client.py).*)
(* A chunk text is the sequence of its characters.                         *)
(***************************************************************************)
\* longest chunk text, most chunks over all the calls
MaxRawLen == 2
MaxChunksBuilt == 2

RawChars == {"F", "f", " "}
RawTexts == UNION {[1..n -> RawChars] : n \in 1..MaxRawLen}
DiffLines == {1, 2}

\* str.lower() of a text given by its characters
lower_text(text) == [i \in DOMAIN text |-> IF text[i] = "F" THEN "f" ELSE text[i]]

\* str.strip()
RECURSIVE strip(_)
strip(text) ==
    IF text = <<>> THEN <<>>
    ELSE IF text[1] = " " THEN strip(Tail(text))
    ELSE IF text[Len(text)] = " " THEN strip(SubSeq(text, 1, Len(text) - 1))
    ELSE text

\* SupabaseManager.compute_content_hash: the digest of the normalized text
manager_compute_content_hash(content) ==
    compute_content_hash(lower_text(strip(content)))

\* the context header of a diff chunk, before the chunk
DiffHeader == <<"Diff: ...|">>

\* the ChunkRecord of a diff chunk (raw: the chunk the hash was made for)
DiffChunkRecord(request, chunk_text, start_line, end_line) ==
    [repo |-> REPO, pr_number |-> PR, head_sha |-> request.head_sha,
     source_type |-> "diff", path |-> NULL,
     start_line |-> start_line, end_line |-> end_line,
     content |-> DiffHeader \o chunk_text,
     content_hash |-> manager_compute_content_hash(chunk_text),
     raw |-> chunk_text]

\* the select of SupabaseManager.upsert_chunks
ManagerExisting(table, chunk) ==
    {row \in table :
        /\ row.repo = chunk.repo
        /\ row.source_type = chunk.source_type
        /\ row.content_hash = chunk.content_hash
        /\ row.pr_number = chunk.pr_number
        /\ row.head_sha = chunk.head_sha
        /\ row.path = chunk.path
        /\ row.start_line = chunk.start_line
        /\ row.end_line = chunk.end_line}

PriReady ==
    [pc |-> "ready", request |-> [head_sha |-> NULL], chunks |-> <<>>,
     k |-> 1, table |-> {}, stats |-> [upserted |-> 0, skipped |-> 0],
     built |-> 0, deduped |-> {}]

\* a call of pr_index_build
PrIndexBuild(head_sha) ==
    /\ pri.pc \in {"ready", "done"}
    /\ pri.built < MaxChunksBuilt
    /\ pri' = [pri EXCEPT !.pc = "build",
                          !.request = [head_sha |-> head_sha],
                          !.chunks = <<>>, !.k = 1,
                          !.stats = [upserted |-> 0, skipped |-> 0]]
    /\ UNCHANGED <<idxVars, retVars, rerVars, intVars, emb, disc, lm, prb>>

\* one turn of the loop over the diff chunks
BuildDiffChunk(chunk_text, start_line) ==
    /\ pri.pc = "build"
    /\ pri.built < MaxChunksBuilt
    /\ pri' = [pri EXCEPT
                 !.built = pri.built + 1,
                 !.chunks = IF strip(chunk_text) = <<>> THEN pri.chunks
                            ELSE Append(pri.chunks,
                                        DiffChunkRecord(pri.request, chunk_text,
                                                        start_line, start_line))]
    /\ UNCHANGED <<idxVars, retVars, rerVars, intVars, emb, disc, lm, prb>>

\* manager.embed_text raises: the call raises, nothing is written
BuildEmbedFails ==
    /\ pri.pc = "build"
    /\ pri.chunks # <<>>
    /\ pri' = [pri EXCEPT !.pc = "done", !.chunks = <<>>]
    /\ UNCHANGED <<idxVars, retVars, rerVars, intVars, emb, disc, lm, prb>>

\* stats = await manager.upsert_chunks(chunks)
UpsertChunksStart ==
    /\ pri.pc = "build"
    /\ pri' = [pri EXCEPT !.pc = IF pri.chunks = <<>> THEN "done" ELSE "upsert"]
    /\ UNCHANGED <<idxVars, retVars, rerVars, intVars, emb, disc, lm, prb>>

\* one turn of the loop of upsert_chunks
UpsertChunk ==
    /\ pri.pc = "upsert"
    /\ LET chunk == pri.chunks[pri.k]
           existing == ManagerExisting(pri.table, chunk)
           after == [pri EXCEPT
                       !.k = pri.k + 1,
                       !.pc = IF pri.k = Len(pri.chunks) THEN "done"
                              ELSE "upsert"]
       IN pri' = IF existing # {}
                 THEN [after EXCEPT
                         !.stats.skipped = pri.stats.skipped + 1,
                         !.deduped = pri.deduped \cup
                             {[chunk |-> chunk.raw, against |-> row.raw] :
                                 row \in existing}]
                 ELSE [after EXCEPT
                         !.stats.upserted = pri.stats.upserted + 1,
                         !.table = pri.table \cup {chunk}]
    /\ UNCHANGED <<idxVars, retVars, rerVars, intVars, emb, disc, lm, prb>>

InitMcp ==
    /\ ServiceIdle
    /\ emb = [pc |-> "idle"]
    /\ disc = [pc |-> "idle"]
    /\ lm = [pc |-> "idle"]
    /\ pri = PriReady
    /\ prb = [pc |-> "idle"]

NextMcp ==
    \/ \E head_sha \in {"s1", "s2"} : PrIndexBuild(head_sha)
    \/ \E chunk_text \in RawTexts, start_line \in DiffLines :
          BuildDiffChunk(chunk_text, start_line)
    \/ BuildEmbedFails
    \/ UpsertChunksStart
    \/ UpsertChunk

SpecMcp == InitMcp /\ [][NextMcp]_vars

(***************************************************************************)
(* Content hash claim.                                                     *)
(***************************************************************************)
\* C18: every content_hash written by an indexing path is the digest of
\* the chunk's exact raw text, so two chunks whose raw texts differ in any
\* character (letter case, leading or trailing white space) get different
\* hashes and are never deduplicated against each other.
C18_RawTextHash ==
    /\ \A row \in pri.table : row.content_hash = compute_content_hash(row.raw)
    /\ \A c1 \in pri.table : \A k \in DOMAIN pri.chunks :
          c1.raw # pri.chunks[k].raw
              => c1.content_hash # pri.chunks[k].content_hash
    /\ \A d \in pri.deduped : d.chunk = d.against

(***************************************************************************)
(* The loops and the caps of pr_index_build (factgap/mcp_server/server.py) *)
(* and prioritize_changed_files (factgap/chunking/optimized.py).  Chunks   *)
(* are counted here, their texts are left out.                             *)
(***************************************************************************)
\* most diff chunks and most changed files of a request, largest caps
MaxDiffChunks == 3
MaxChanged == 3
MaxTotalChunks == 2
MaxChangedIndexed == 2

\* the changed files a request can name: path components and size (0: the
\* entry carries no size, or the file is empty)
ChangedFiles ==
    << [path |-> <<"src", "main.py">>, size |-> 100],
       [path |-> <<"README.md">>, size |-> 0],
       [path |-> <<"docs", "guide.md">>, size |-> 10000],
       [path |-> <<"node_modules", "index.js">>, size |-> 100],
       [path |-> <<"node_modules", "pkg", "index.js">>, size |-> 100] >>

\* lists of changed files without repetition, as indices of ChangedFiles
RECURSIVE FileLists(_)
FileLists(n) ==
    IF n = 0 THEN {<<>>}
    ELSE LET shorter == FileLists(n - 1) IN
         shorter \cup {Append(q, x) :
                         q \in {r \in shorter : Len(r) = n - 1},
                         x \in DOMAIN ChangedFiles}

NoRepeat(q) == \A i, j \in DOMAIN q : i # j => q[i] # q[j]

code_extensions == {".py", ".js", ".ts"}
important_dirs == {"src", "app", "server", "factgap", "lib"}

\* PathFilter.should_skip_path: _matches_glob is the conversion of
\* matches_glob, over config.ignore_globs
should_skip_path(path) ==
    \E g \in DOMAIN IgnoreGlobs : matches_glob(PathStr(path), IgnoreGlobs[g])

Min(a, b) == IF a < b THEN a ELSE b

\* score_file: the sizes of ChangedFiles divide 10000
score_file(file_info) ==
    IF should_skip_path(file_info.path) THEN -1
    ELSE (IF file_info.size > 0 THEN Min(100, 10000 \div file_info.size) ELSE 0)
         + (IF suffix(file_info.path[Len(file_info.path)]) \in code_extensions
            THEN 50 ELSE 0)
         + (IF \E i \in 1..(Len(file_info.path) - 1) :
                  file_info.path[i] \in important_dirs
            THEN 30 ELSE 0)

\* list.sort(key = score_file, reverse = True): stable, descending
RECURSIVE InsertByScore(_, _)
InsertByScore(valid_files, f) ==
    IF valid_files = <<>> THEN <<f>>
    ELSE IF score_file(valid_files[1]) < score_file(f) THEN <<f>> \o valid_files
    ELSE <<valid_files[1]>> \o InsertByScore(Tail(valid_files), f)

RECURSIVE SortByScore(_)
SortByScore(valid_files) ==
    IF valid_files = <<>> THEN <<>>
    ELSE InsertByScore(SortByScore(SubSeq(valid_files, 1, Len(valid_files) - 1)),
                       valid_files[Len(valid_files)])

prioritize_changed_files(changed_files, max_files) ==
    Take(SortByScore(SelectSeq(changed_files, LAMBDA f : score_file(f) > 0)),
         max_files)

\* len(chunker.chunk_file(...)): nothing for a path the filter skips or an
\* empty file, two chunks for a long file
FileChunkCount(file_info) ==
    IF should_skip_path(file_info.path) \/ file_info.size = 0 THEN 0
    ELSE IF file_info.size > 1000 THEN 2
    ELSE 1

PrbReady(max_total, max_changed) ==
    [pc |-> "ready",
     config |-> [max_total_chunks_per_run |-> max_total,
                 max_changed_files_indexed |-> max_changed],
     diff_chunks |-> 0, changed_files |-> <<>>, prioritized_files |-> <<>>,
     di |-> 0, fi |-> 0, total_chunks |-> 0, chunks |-> 0, chunked |-> {}]

\* a call of pr_index_build: the diff splits into diff_chunks non-blank
\* chunks, the request names the changed files of q
PrBuildStart(diff_chunks, q) ==
    /\ prb.pc = "ready"
    /\ NoRepeat(q)
    /\ prb' = [prb EXCEPT
                 !.pc = "diff", !.diff_chunks = diff_chunks,
                 !.changed_files = [i \in DOMAIN q |-> ChangedFiles[q[i]]]]
    /\ UNCHANGED <<idxVars, retVars, rerVars, intVars, emb, disc, lm, pri>>

\* one turn of the loop over the diff chunks: a record, with no test of
\* the cap
PrBuildDiffChunk ==
    /\ prb.pc = "diff"
    /\ prb.di < prb.diff_chunks
    /\ prb' = [prb EXCEPT !.di = prb.di + 1,
                          !.chunks = prb.chunks + 1,
                          !.total_chunks = prb.total_chunks + 1]
    /\ UNCHANGED <<idxVars, retVars, rerVars, intVars, emb, disc, lm, pri>>

\* chunker.prioritize_changed_files(request.changed_files,
\*                                  config.max_changed_files_indexed)
PrBuildPrioritize ==
    /\ prb.pc = "diff"
    /\ prb.di = prb.diff_chunks
    /\ prb' = [prb EXCEPT
                 !.pc = "files", !.fi = 1,
                 !.prioritized_files =
                     prioritize_changed_files(
                         prb.changed_files,
                         prb.config.max_changed_files_indexed)]
    /\ UNCHANGED <<idxVars, retVars, rerVars, intVars, emb, disc, lm, pri>>

\* one turn of the loop over the prioritized files: the loop ends at the
\* cap; the inner loop makes records until the cap
PrBuildFile ==
    /\ prb.pc = "files"
    /\ IF prb.fi > Len(prb.prioritized_files)
          \/ prb.total_chunks >= prb.config.max_total_chunks_per_run
       THEN prb' = [prb EXCEPT !.pc = "done"]
       ELSE LET file_info == prb.prioritized_files[prb.fi]
                room == prb.config.max_total_chunks_per_run - prb.total_chunks
                made == Min(FileChunkCount(file_info), room)
            IN prb' = [prb EXCEPT
                         !.fi = prb.fi + 1,
                         !.chunked = prb.chunked \cup {file_info.path},
                         !.chunks = prb.chunks + made,
                         !.total_chunks = prb.total_chunks + made]
    /\ UNCHANGED <<idxVars, retVars, rerVars, intVars, emb, disc, lm, pri>>

InitPrBuild ==
    /\ ServiceIdle
    /\ emb = [pc |-> "idle"]
    /\ disc = [pc |-> "idle"]
    /\ lm = [pc |-> "idle"]
    /\ pri = [pc |-> "idle"]
    /\ \E max_total \in 1..MaxTotalChunks, max_changed \in 1..MaxChangedIndexed :
          prb = PrbReady(max_total, max_changed)

NextPrBuild ==
    \/ \E diff_chunks \in 0..MaxDiffChunks, q \in FileLists(MaxChanged) :
          PrBuildStart(diff_chunks, q)
    \/ PrBuildDiffChunk
    \/ PrBuildPrioritize
    \/ PrBuildFile

SpecPrBuild == InitPrBuild /\ [][NextPrBuild]_vars

(***************************************************************************)
(* Cap and priority claims.                                                *)
(***************************************************************************)
\* C24: in one pr_index_build invocation the number of chunk records
\* created, diff chunks and changed-file chunks together, never exceeds
\* max_total_chunks_per_run, and at most max_changed_files_indexed changed
\* files are chunked.
C24_ChunkCaps ==
    prb.pc \in {"diff", "files", "done"} =>
        /\ prb.chunks <= prb.config.max_total_chunks_per_run
        /\ Cardinality(prb.chunked) <= prb.config.max_changed_files_indexed

\* a path beneath a directory an ignore glob D/** names
UnderIgnoredDir(path) == Len(path) >= 2 /\ path[1] \in IgnoredDirNames

Eligible(changed_files) ==
    {i \in DOMAIN changed_files : ~ UnderIgnoredDir(changed_files[i].path)}

\* C26: prioritize_changed_files returns at most max_files of the changed
\* files in non-increasing order of priority score, never returns a file
\* whose path matches an ignore glob, and leaves out a file that matches
\* no ignore glob only when more than max_files such files compete for
\* the slots.
C26_Prioritize ==
    prb.pc \in {"files", "done"} =>
        LET out == prb.prioritized_files
            in == prb.changed_files
            max_files == prb.config.max_changed_files_indexed
        IN /\ Len(out) <= max_files
           /\ \A i \in DOMAIN out : \E j \in DOMAIN in : out[i] = in[j]
           /\ \A i, j \in DOMAIN out :
                 i < j => score_file(out[i]) >= score_file(out[j])
           /\ \A i \in DOMAIN out : ~ UnderIgnoredDir(out[i].path)
           /\ (\E j \in Eligible(in) : \A i \in DOMAIN out : out[i] # in[j])
                 => Cardinality(Eligible(in)) > max_files

====
